---- MODULE Spec2Model ----
(***************************************************************************)
(* RecSQL: the query engine of recsql/sqlarray.py.                         *)
(*                                                                         *)
(* SQLarray.sql with its per-handle query cache (KRingbuffer over          *)
(* Ringbuffer), and the handle operations that go through it.  A statement *)
(* text is a sequence of tokens; the SQLite engine is modelled for the     *)
(* statement family listed under Exec, on single-column tables.            *)
(***************************************************************************)
EXTENDS Integers, Sequences, FiniteSets, TLC

\* ------------------------------------------------------------------ bounds
cachesize == 2          \* capacity of every handle's cache (cachesize argument)
MaxRows == 2            \* no table grows beyond this many rows
MaxVal == 2             \* column values are 1..MaxVal
MaxHandles == 2         \* handle objects alive in one run

Values == 1..MaxVal
Handles == 1..MaxHandles

\* ------------------------------------------------------------------ names
tmp_table_name == "__tmp_merge_table"
master == "sqlarray_master"
SELF == "__self__"
memory == ":memory:"        \* dbfile of a database held in memory

\* ------------------------------------------------------------------ text
\* str.replace(old, new) on a token sequence
Replace(SQL, old, new) ==
    [i \in DOMAIN SQL |-> IF SQL[i] = old THEN new ELSE SQL[i]]

\* '?' in SQL
HasPlaceholder(SQL) == \E i \in DOMAIN SQL : SQL[i] = "?"

\* number of '?' bindings the statement expects
NumPlaceholders(SQL) == Cardinality({i \in DOMAIN SQL : SQL[i] = "?"})

\* str.upper() of one token (tokens not listed have no lower-case letter
\* that matters to the search below)
UpperTok(tok) ==
    CASE tok = "delete"  -> "DELETE"
      [] tok = "Delete"  -> "DELETE"
      [] tok = "deleted" -> "DELETED"
      [] OTHER           -> tok

\* SQL.upper().find('DELETE') > -1
FindDELETE(SQL) == \E i \in DOMAIN SQL : UpperTok(SQL[i]) \in {"DELETE", "DELETED"}

\* ------------------------------------------------------------------ values
\* the parameters argument: None, or a tuple of values
None == [none |-> TRUE, v |-> <<>>]
Tuple(v) == [none |-> FALSE, v |-> v]

\* what sql() hands back: a numpy recarray, a list of tuples, or nothing
\* (an exception left the call)
NoResult == [form |-> "none", names |-> <<>>, rows |-> <<>>]
ListOfTuples(rows) == [form |-> "list", names |-> <<>>, rows |-> rows]
Recarray(rows, names) == [form |-> "recarray", names |-> names, rows |-> rows]

\* ------------------------------------------------------------------ cache
\* Ringbuffer.append testing len(self) > capacity: one element too many stays
RECURSIVE Ringbuffer_append_late(_, _, _)
Ringbuffer_append_late(rb, capacity, x) ==
    IF Len(rb) > capacity
    THEN Ringbuffer_append_late(Tail(rb), capacity, x)
    ELSE Append(rb, x)

\* Ringbuffer.append discarding on the right: the newest element goes first
RECURSIVE Ringbuffer_append_newest(_, _, _)
Ringbuffer_append_newest(rb, capacity, x) ==
    IF Len(rb) >= capacity
    THEN Ringbuffer_append_newest(SubSeq(rb, 1, Len(rb) - 1), capacity, x)
    ELSE Append(rb, x)

\* Ringbuffer.append: drop from the left while full, then append on the right
RECURSIVE Ringbuffer_append(_, _, _)
Ringbuffer_append(rb, capacity, x) ==
    IF Len(rb) >= capacity
    THEN Ringbuffer_append(Tail(rb), capacity, x)
    ELSE Append(rb, x)

InRing(rb, k) == \E i \in DOMAIN rb : rb[i] = k

\* _prune deleting nothing: the dict keeps the keys the ring has dropped
KRingbuffer_prune_none(kr) == kr

\* KRingbuffer._prune: delete every dict key that is not in the ring
KRingbuffer_prune(kr) ==
    [kr EXCEPT !.items = [k \in {x \in DOMAIN kr.items : InRing(kr.ringbuffer, x)}
                             |-> kr.items[k]]]

\* KRingbuffer(capacity)
KRingbuffer(capacity) ==
    KRingbuffer_prune([capacity |-> capacity, ringbuffer |-> <<>>, items |-> <<>>])

\* KRingbuffer.append(k, v)
KRingbuffer_append(kr, k, v) ==
    LET rb == Ringbuffer_append(kr.ringbuffer, kr.capacity, k)
        it == [x \in DOMAIN kr.items \cup {k} |-> IF x = k THEN v ELSE kr.items[x]]
    IN  KRingbuffer_prune([kr EXCEPT !.ringbuffer = rb, !.items = it])

\* KRingbuffer.clear()
KRingbuffer_clear(kr) ==
    KRingbuffer_prune([kr EXCEPT !.ringbuffer = <<>>])

\* dict.__contains__ and dict.__getitem__
InCache(kr, k) == k \in DOMAIN kr.items
GetItem(kr, k) == kr.items[k]

\* ------------------------------------------------------------------ statements
\* SQLarray.sql_select(fields, *args): "SELECT <fields> FROM __self__ " + args
sql_select(fields) == <<"SELECT">> \o fields \o <<"FROM", SELF, " ">>

SelectAll(T)     == <<"SELECT", "*", "FROM", T>>
SelectWhere(T)   == <<"SELECT", "*", "FROM", T, "WHERE", "a", "=", "?">>
SelectTwice(T)   == <<"SELECT", "a", ",", "a", "FROM", T>>
SelectAs(T)      == <<"SELECT", "a", "AS", "deleted", "FROM", T>>
SelectCount(T)   == <<"SELECT", "COUNT()", "AS", "length", "FROM", T>>
InsertValue(T)   == <<"INSERT", "INTO", T, "VALUES", "(", "?", ")">>
DeleteFrom(T)    == <<"delete", "FROM", T>>
InsertSelect(T, S) == <<"INSERT", "OR", "ABORT", "INTO", T, "SELECT", "*", "FROM", S>>
CreateTable(T)   == <<"CREATE", "TABLE", T, "(", "a", ")">>
DropTable(T)     == <<"DROP", "TABLE", T>>
DropTableIfExists(T) == <<"DROP", "TABLE", "IF", "EXISTS", T>>
SelectCounter    == <<"SELECT", "value", "FROM", master, "WHERE", "name", "=",
                      "'connection_counter'">>
HasTableQuery    == <<"SELECT", "name", "FROM", "sqlite_master", "WHERE",
                      "type='table'", "AND", "name", "=", "?">>

\* ------------------------------------------------------------------ store
\* The database behind the connection: the relations that exist, the rows of
\* each (one column, a), which of them are TEMPORARY, which of them declare
\* the column UNIQUE, and the value of the connection_counter row of
\* sqlarray_master.
TableNames == {"t", "u", tmp_table_name, "selection_1", "selection_2", SELF}

RowsOf(db, T) == [i \in DOMAIN db.rows[T] |-> <<db.rows[T][i]>>]

RECURSIVE FilterEq(_, _)
FilterEq(vals, v) ==
    IF vals = <<>> THEN <<>>
    ELSE IF Head(vals) = v THEN <<<<v>>>> \o FilterEq(Tail(vals), v)
         ELSE FilterEq(Tail(vals), v)

\* trailing blanks are no part of the statement
RECURSIVE Trim(_)
Trim(SQL) ==
    IF SQL # <<>> /\ SQL[Len(SQL)] = " " THEN Trim(SubSeq(SQL, 1, Len(SQL) - 1))
    ELSE SQL

Outcome(exc, db, rowcount, rows, description) ==
    [exc |-> exc, db |-> db, rowcount |-> rowcount, rows |-> rows,
     description |-> description]

Failed(db, exc) == Outcome(exc, db, -1, <<>>, <<>>)

\* no value twice
Distinct(vals) == \A i, j \in DOMAIN vals : vals[i] = vals[j] => i = j

\* the longest prefix of new that table T takes without breaking UNIQUE
RECURSIVE Accepted(_, _, _)
Accepted(db, T, new) ==
    IF new = <<>> \/ (T \in db.unique /\ ~Distinct(Append(db.rows[T], Head(new))))
    THEN db.rows[T]
    ELSE Accepted([db EXCEPT !.rows[T] = Append(@, Head(new))], T, Tail(new))

\* an INSERT that keeps the rows written before the one that collides
\* (OR FAIL)
InsertOrAbort_partial(db, T, new) ==
    IF T \in db.unique /\ ~Distinct(db.rows[T] \o new)
    THEN Outcome("IntegrityError", [db EXCEPT !.rows[T] = Accepted(db, T, new)],
                 -1, <<>>, <<>>)
    ELSE Outcome("", [db EXCEPT !.rows[T] = @ \o new], Len(new), <<>>, <<>>)

\* INSERT [OR ABORT] INTO T of the rows new: a row that breaks the UNIQUE
\* constraint of T aborts the statement, which undoes what it has written
InsertOrAbort(db, T, new) ==
    IF T \in db.unique /\ ~Distinct(db.rows[T] \o new)
    THEN Failed(db, "IntegrityError")
    ELSE Outcome("", [db EXCEPT !.rows[T] = @ \o new], Len(new), <<>>, <<>>)

\* cursor.execute(SQL[, parameters]) followed by cursor.rowcount,
\* cursor.fetchall() and cursor.description.  reliable: whether this build of
\* the engine reports the number of rows removed by an unqualified DELETE
\* (older ones report 0).
Execute(db, SQL, n, parameters, reliable) ==
    LET Known(T) == T \in db.exists
    IN
    IF NumPlaceholders(SQL) # Len(parameters.v)
    THEN Failed(db, "ProgrammingError")
    ELSE CASE n = 4 /\ SQL = SelectAll(SQL[4]) ->
                 IF Known(SQL[4])
                 THEN Outcome("", db, -1, RowsOf(db, SQL[4]), <<"a">>)
                 ELSE Failed(db, "OperationalError")
           [] n = 8 /\ SQL = SelectWhere(SQL[4]) ->
                 IF Known(SQL[4])
                 THEN Outcome("", db, -1, FilterEq(db.rows[SQL[4]], parameters.v[1]), <<"a">>)
                 ELSE Failed(db, "OperationalError")
           [] n = 6 /\ SQL = SelectTwice(SQL[6]) ->
                 IF Known(SQL[6])
                 THEN Outcome("", db, -1,
                              [i \in DOMAIN db.rows[SQL[6]] |->
                                  <<db.rows[SQL[6]][i], db.rows[SQL[6]][i]>>],
                              <<"a", "a">>)
                 ELSE Failed(db, "OperationalError")
           [] n = 6 /\ SQL = SelectAs(SQL[6]) ->
                 IF Known(SQL[6])
                 THEN Outcome("", db, -1, RowsOf(db, SQL[6]), <<"deleted">>)
                 ELSE Failed(db, "OperationalError")
           [] n = 6 /\ SQL = SelectCount(SQL[6]) ->
                 IF Known(SQL[6])
                 THEN Outcome("", db, -1, <<<<Len(db.rows[SQL[6]])>>>>, <<"length">>)
                 ELSE Failed(db, "OperationalError")
           [] n = 7 /\ SQL = InsertValue(SQL[3]) ->
                 IF Known(SQL[3])
                 THEN InsertOrAbort(db, SQL[3], <<parameters.v[1]>>)
                 ELSE Failed(db, "OperationalError")
           [] n = 3 /\ SQL = DeleteFrom(SQL[3]) ->
                 IF Known(SQL[3])
                 THEN Outcome("", [db EXCEPT !.rows[SQL[3]] = <<>>],
                              IF reliable THEN Len(db.rows[SQL[3]]) ELSE 0, <<>>, <<>>)
                 ELSE Failed(db, "OperationalError")
           [] n = 9 /\ SQL = InsertSelect(SQL[5], SQL[9]) ->
                 IF Known(SQL[5]) /\ Known(SQL[9])
                 THEN InsertOrAbort(db, SQL[5], db.rows[SQL[9]])
                 ELSE Failed(db, "OperationalError")
           [] n = 6 /\ SQL = CreateTable(SQL[3]) ->
                 IF ~Known(SQL[3])
                 THEN Outcome("", [db EXCEPT !.exists = @ \cup {SQL[3]},
                                             !.rows[SQL[3]] = <<>>], -1, <<>>, <<>>)
                 ELSE Failed(db, "OperationalError")
           [] n = 3 /\ SQL = DropTable(SQL[3]) ->
                 IF Known(SQL[3])
                 THEN Outcome("", [db EXCEPT !.exists = @ \ {SQL[3]},
                                             !.temp = @ \ {SQL[3]},
                                             !.unique = @ \ {SQL[3]},
                                             !.rows[SQL[3]] = <<>>], -1, <<>>, <<>>)
                 ELSE Failed(db, "OperationalError")
           [] n = 5 /\ SQL = DropTableIfExists(SQL[5]) ->
                 Outcome("", [db EXCEPT !.exists = @ \ {SQL[5]},
                                        !.temp = @ \ {SQL[5]},
                                        !.unique = @ \ {SQL[5]},
                                        !.rows[SQL[5]] = <<>>], -1, <<>>, <<>>)
           [] SQL = HasTableQuery ->
                 Outcome("", db, -1,
                         IF parameters.v[1] \in db.exists \ db.temp
                         THEN <<<<parameters.v[1]>>>> ELSE <<>>,
                         <<"name">>)
           [] SQL = SelectCounter ->
                 Outcome("", db, -1, <<<<db.counter>>>>, <<"value">>)
           [] OTHER -> Failed(db, "OperationalError")

\* a closed connection takes no statement
Exec(db, SQL, parameters, reliable) ==
    IF db.connected
    THEN Execute(db, Trim(SQL), Len(Trim(SQL)), parameters, reliable)
    ELSE Failed(db, "ProgrammingError")

\* numpy.rec.fromrecords(result, names=names) raises on duplicate field names
fromrecords_ok(names) == \A i, j \in DOMAIN names : names[i] = names[j] => i = j

\* ------------------------------------------------------------------ SQLarray.sql
\* The result of one call of sql() on the handle object self: the database
\* and the handle's cache afterwards, the value returned or the exception
\* raised, whether the statement ran against the store, and the rowcount the
\* store reported.
SqlResult(db, cache, ret, exc, executed, rowcount) ==
    [db |-> db, cache |-> cache, ret |-> ret, exc |-> exc, executed |-> executed,
     rowcount |-> rowcount]

\* the cache test without the placeholder check
CacheHit_anyText(self, SQL, cache) ==
    cache /\ InCache(self.cache, SQL)

\* line 428: the test that answers a call from the cache
CacheHit(self, SQL, cache) ==
    ~HasPlaceholder(SQL) /\ cache /\ InCache(self.cache, SQL)

\* a hit that also makes the entry the youngest one (recency order)
Hit_refresh(db, self, SQL) ==
    SqlResult(db,
              [self.cache EXCEPT !.ringbuffer =
                  Append(SelectSeq(@, LAMBDA k : k # SQL), SQL)],
              GetItem(self.cache, SQL), "", FALSE, -1)

\* line 429: return self.__cache[SQL]
Hit(db, self, SQL) ==
    SqlResult(db, self.cache, GetItem(self.cache, SQL), "", FALSE, -1)

\* the modification test trusting rowcount alone
Modified_rowcountOnly(rowcount, SQL) == rowcount > 0

\* the modification test looking for the keyword as written in capitals
Modified_caseSensitive(rowcount, SQL) ==
    rowcount > 0 \/ (\E i \in DOMAIN SQL : SQL[i] = "DELETE")

\* line 438: the table was (potentially) modified
Modified(rowcount, SQL) == rowcount > 0 \/ FindDELETE(SQL)

\* a conversion that falls back to the list of tuples instead of raising
Convert_fallback(rows, description, asrecarray) ==
    IF asrecarray /\ fromrecords_ok(description)
    THEN [exc |-> "", result |-> Recarray(rows, description)]
    ELSE [exc |-> "", result |-> ListOfTuples(rows)]

\* lines 447-454: the rows as a recarray or as the list of tuples; a failing
\* numpy.rec.fromrecords is turned into TypeError
Convert(rows, description, asrecarray) ==
    IF asrecarray
    THEN IF fromrecords_ok(description)
         THEN [exc |-> "", result |-> Recarray(rows, description)]
         ELSE [exc |-> "TypeError", result |-> NoResult]
    ELSE [exc |-> "", result |-> ListOfTuples(rows)]

\* an insertion that does not ask for the flag
Store_always(kr, cache, SQL, result) == KRingbuffer_append(kr, SQL, result)

\* lines 455-456: if cache: self.__cache.append(SQL, result)
Store(kr, cache, SQL, result) ==
    IF cache THEN KRingbuffer_append(kr, SQL, result) ELSE kr

\* the early return left out: an empty result goes the way of any other
sql_fetchall_storeEmpty(SQL, cache, c, cleared, conv) ==
    IF conv.exc # "" /\ c.rows # <<>>
    THEN SqlResult(c.db, cleared, NoResult, conv.exc, TRUE, c.rowcount)
    ELSE SqlResult(c.db, Store(cleared, cache, SQL, ListOfTuples(c.rows)),
                   ListOfTuples(c.rows), "", TRUE, c.rowcount)

\* lines 444-457: fetchall, the early return on no rows, the conversion and
\* the insertion into the cache; cleared is the cache after line 443
sql_fetchall(SQL, cache, c, cleared, conv) ==
    IF c.rows = <<>>
    THEN SqlResult(c.db, cleared, ListOfTuples(<<>>), "", TRUE, c.rowcount)
    ELSE IF conv.exc # ""
    THEN SqlResult(c.db, cleared, NoResult, conv.exc, TRUE, c.rowcount)
    ELSE SqlResult(c.db, Store(cleared, cache, SQL, conv.result), conv.result,
                   "", TRUE, c.rowcount)

\* lines 431-443: c is the cursor after execute(); an exception of the store
\* leaves sql() at once, else the cache is cleared if the table was modified
sql_execute(db, self, SQL, asrecarray, cache, c) ==
    IF c.exc # ""
    THEN SqlResult(c.db, self.cache, NoResult, c.exc, TRUE, c.rowcount)
    ELSE sql_fetchall(SQL, cache, c,
                      IF Modified(c.rowcount, SQL)
                      THEN KRingbuffer_clear(self.cache)
                      ELSE self.cache,
                      Convert(c.rows, c.description, asrecarray))

\* lines 428-436: SQL is the text after line 419
sql_lookup(db, self, SQL, parameters, asrecarray, cache, reliable) ==
    IF CacheHit(self, SQL, cache)
    THEN Hit(db, self, SQL)
    ELSE sql_execute(db, self, SQL, asrecarray, cache,
                     Exec(db, SQL, parameters, reliable))

\* sql() without the substitution of line 419
sql_unreplaced(db, self, SQL, parameters, asrecarray, cache, reliable) ==
    sql_lookup(db, self, SQL, parameters, asrecarray, cache, reliable)

\* SQLarray.sql(SQL, parameters, asrecarray, cache)
sql(db, self, SQL, parameters, asrecarray, cache, reliable) ==
    sql_lookup(db, self, Replace(SQL, SELF, self.name), parameters, asrecarray,
               cache, reliable)

\* ------------------------------------------------------------------ SQLarray
NoHandle ==
    [state |-> "none", name |-> "", cache |-> KRingbuffer(cachesize), dbfile |-> memory]

\* lines 142-144: every SQLarray object gets a query cache of its own; dbfile
\* is ":memory:" unless the keyword is given
NewHandle(name) ==
    [state |-> "open", name |-> name, cache |-> KRingbuffer(cachesize), dbfile |-> memory]

\* SQLarray.__add_connection_counter: UPDATE sqlarray_master SET value = value + ?
add_connection_counter(db, increment) == [db EXCEPT !.counter = @ + increment]

\* what is left of a sql() call whose value is not used
Left(r) == [db |-> r.db, cache |-> r.cache]

\* the first field of the first row of the result
First(r) == [db |-> r.db, cache |-> r.cache, value |-> r.ret.rows[1][1]]

\* SQLarray.connection_count: the stored counter, read through sql()
connection_count(db, self) ==
    First(sql(db, self, SelectCounter, None, FALSE, FALSE, TRUE))

\* a close() that cleans up whatever the counter says
close_counted_always(self, n) ==
    IF self.dbfile = memory
    THEN Left(sql(n.db, [self EXCEPT !.cache = n.cache], DropTableIfExists(SELF), None, FALSE, FALSE, TRUE))
    ELSE [db |-> [n.db EXCEPT !.connected = FALSE], cache |-> n.cache]

\* lines 589-595: n is connection_count after the decrement; at zero the
\* table is dropped (dbfile ":memory:") or the connection committed and closed
close_counted(self, n) ==
    IF n.value = 0
    THEN IF self.dbfile = memory
         THEN Left(sql(n.db, [self EXCEPT !.cache = n.cache], DropTableIfExists(SELF),
                       None, FALSE, FALSE, TRUE))
         ELSE [db |-> [n.db EXCEPT !.connected = FALSE], cache |-> n.cache]
    ELSE [db |-> n.db, cache |-> n.cache]

\* SQLarray.close; on a closed connection the decrement raises
\* ProgrammingError and nothing is done
close(db, self) ==
    IF db.connected
    THEN close_counted(self, connection_count(add_connection_counter(db, -1), self))
    ELSE [db |-> db, cache |-> self.cache]

\* SQLarray.__init__(name, records, columns=("a",), connection=..., is_tmp=...)
\* on the shared connection; records is None (bind to the existing table) or
\* the tuple of column values.  An object whose construction fails after the
\* counter was incremented is reclaimed, which runs __del__ = close.
SQLarray_init_counted(db, counted, name, records, is_tmp) ==
    IF records.none
    THEN IF name \in counted.exists
         THEN [db |-> counted, exc |-> "", obj |-> NewHandle(name)]
         ELSE [db |-> close(counted, NewHandle(name)).db, exc |-> "ValueError",
               obj |-> NoHandle]
    ELSE IF name \in counted.exists
         THEN [db |-> close(counted, NewHandle(name)).db, exc |-> "OperationalError",
               obj |-> NoHandle]
         ELSE [db |-> [counted EXCEPT !.exists = @ \cup {name},
                                      !.temp = IF is_tmp THEN @ \cup {name} ELSE @,
                                      !.rows[name] = records.v],
               exc |-> "", obj |-> NewHandle(name)]

SQLarray_init(db, name, records, is_tmp) ==
    IF (name = tmp_table_name /\ ~is_tmp) \/ name = master
    THEN [db |-> db, exc |-> "ValueError", obj |-> NoHandle]
    ELSE IF ~db.connected
    THEN [db |-> db, exc |-> "ProgrammingError", obj |-> NoHandle]
    ELSE SQLarray_init_counted(db, add_connection_counter(db, 1), name, records, is_tmp)

\* .length[0] of what SELECT returned; seen records the call for the history
Length(seen) ==
    [db |-> seen.r.db, cache |-> seen.r.cache,
     exc |-> IF seen.r.exc # "" THEN seen.r.exc
             ELSE IF seen.r.ret.form # "recarray" THEN "AttributeError"
             ELSE "",
     value |-> IF seen.r.exc = "" /\ seen.r.ret.form = "recarray"
               THEN seen.r.ret.rows[1][1] ELSE -1,
     seen |-> seen]

Seen(key, cache, r) == [key |-> key, cache |-> cache, r |-> r]

\* SQLarray.__len__: self.SELECT('COUNT() AS length').length[0]
SQLarray_len(db, self) ==
    Length(Seen(Replace(sql_select(<<"COUNT()", "AS", "length">>), SELF, self.name),
                TRUE,
                sql(db, self, sql_select(<<"COUNT()", "AS", "length">>), None,
                    TRUE, TRUE, TRUE)))

\* what merge(), merge_table() and selection() leave behind: the database,
\* the handle's cache, the exception or the value returned, and the sql()
\* calls made on the handle itself, in order
OpResult(db, cache, exc, value, calls) ==
    [db |-> db, cache |-> cache, exc |-> exc, value |-> value, calls |-> calls]

WithCache(self, kr) == [self EXCEPT !.cache = kr]

\* lines 284-288: len_after, the assertion, del tmparray (__del__ = close)
merge_after(tmparray, before, len_tmp, ins, after) ==
    OpResult(close(after.db, tmparray).db, after.cache,
             IF after.exc # "" THEN after.exc
             ELSE IF len_tmp.value # after.value - before.value THEN "AssertionError"
             ELSE "",
             IF after.exc = "" /\ len_tmp.value = after.value - before.value
             THEN after.value - before.value ELSE -1,
             <<before.seen, ins, after.seen>>)

\* line 283: the INSERT through sql(); an exception leaves merge, and the
\* temporary object is reclaimed
merge_insert(self, tmparray, before, len_tmp, ins) ==
    IF ins.r.exc # ""
    THEN OpResult(close(ins.r.db, tmparray).db, ins.r.cache, ins.r.exc, -1,
                  <<before.seen, ins>>)
    ELSE merge_after(tmparray, before, len_tmp, ins,
                     SQLarray_len(ins.r.db, WithCache(self, ins.r.cache)))

\* line 280: len_tmp = len(tmparray)
merge_tmp_len(self, tmp, before, len_tmp) ==
    merge_insert(self, WithCache(tmp.obj, len_tmp.cache), before, len_tmp,
                 Seen(Replace(InsertSelect(SELF, tmp_table_name), SELF, self.name), TRUE,
                      sql(len_tmp.db, WithCache(self, before.cache),
                          InsertSelect(SELF, tmp_table_name), None, TRUE, TRUE, TRUE)))

\* lines 278-279: the temporary table object
merge_tmp(self, before, tmp) ==
    IF tmp.exc # ""
    THEN OpResult(tmp.db, before.cache, tmp.exc, -1, <<before.seen>>)
    ELSE merge_tmp_len(self, tmp, before, SQLarray_len(tmp.db, tmp.obj))

\* line 276: len_before = len(self)
merge_before(self, recarray, before) ==
    IF before.exc # ""
    THEN OpResult(before.db, before.cache, before.exc, -1, <<before.seen>>)
    ELSE merge_tmp(self, before,
                   SQLarray_init(before.db, tmp_table_name, Tuple(recarray), TRUE))

\* SQLarray.merge(recarray)
merge(db, self, recarray) ==
    merge_before(self, recarray, SQLarray_len(db, self))

\* lines 319-320
merge_table_after(before, ins, after) ==
    OpResult(after.db, after.cache, after.exc,
             IF after.exc = "" THEN after.value - before.value ELSE -1,
             <<before.seen, ins, after.seen>>)

\* line 318
merge_table_insert(self, before, ins) ==
    IF ins.r.exc # ""
    THEN OpResult(ins.r.db, ins.r.cache, ins.r.exc, -1, <<before.seen, ins>>)
    ELSE merge_table_after(before, ins,
                           SQLarray_len(ins.r.db, WithCache(self, ins.r.cache)))

\* line 316
merge_table_before(self, name, before) ==
    IF before.exc # ""
    THEN OpResult(before.db, before.cache, before.exc, -1, <<before.seen>>)
    ELSE merge_table_insert(self, before,
             Seen(Replace(InsertSelect(SELF, name), SELF, self.name), TRUE,
                  sql(before.db, WithCache(self, before.cache),
                      InsertSelect(SELF, name), None, TRUE, TRUE, TRUE)))

\* SQLarray.merge_table(name)
merge_table(db, self, name) ==
    merge_table_before(self, name, SQLarray_len(db, self))

\* SQLarray.has_table(name): the name is looked up in sqlite_master (which
\* lists no TEMPORARY table) through sql() with cache=False
HasRows(r) == [cache |-> r.cache, value |-> Len(r.ret.rows) > 0]

has_table(db, self, name) ==
    HasRows(sql(db, self, HasTableQuery, Tuple(<<name>>), FALSE, FALSE, TRUE))

\* 'selection_' + md5(_sql).hexdigest(), one name per text
SelectionName(text) ==
    CASE text = SelectAll("t")   -> "selection_1"
      [] text = SelectWhere("t") -> "selection_2"

\* the texts selection() is called with: a full SELECT, or a WHERE clause
WhereClause == <<"a", "=", "?">>

\* lines 512-520: re.match(r'\s*SELECT.*FROM') or the WHERE-clause form
SelectionText(self, SQL) ==
    Replace(IF SQL # <<>> /\ SQL[1] = "SELECT" /\ (\E i \in DOMAIN SQL : SQL[i] = "FROM")
            THEN SQL
            ELSE <<"SELECT", "*", "FROM", SELF, "WHERE">> \o SQL,
            SELF, self.name)

\* the name keyword of selection(): None, or the name given
Name(n) == [none |-> FALSE, v |-> n]

\* newname = kwargs.pop('name', 'selection_' + md5(_sql).hexdigest())
NewName(text, name) == IF name.none THEN SelectionName(text) ELSE name.v

\* what selection() leaves: the database, the exception or the new object,
\* the cache of self, the name of the relation and the statements that
\* selection() itself sent to the cursor
Bound(bound, cache, newname, steps) ==
    [db |-> bound.db, exc |-> bound.exc, obj |-> bound.obj, cache |-> cache,
     newname |-> newname, steps |-> steps]

\* lines 534-544: CREATE TABLE newname AS <text>, then the handle bound to it;
\* src is the outcome of the SELECT on the database dropped
selection_create(dropped, newname, src, cache, steps) ==
    IF src.exc # ""
    THEN [db |-> dropped, exc |-> src.exc, obj |-> NoHandle, cache |-> cache,
          newname |-> newname, steps |-> steps]
    ELSE Bound(SQLarray_init([dropped EXCEPT
                                 !.exists = @ \cup {newname},
                                 !.rows[newname] = [i \in DOMAIN src.rows |-> src.rows[i][1]]],
                             newname, None, FALSE),
               cache, newname, steps)

\* lines 530-532: DROP TABLE newname
selection_drop(db, newname) ==
    [db EXCEPT !.exists = @ \ {newname}, !.unique = @ \ {newname},
               !.rows[newname] = <<>>]

\* a selection() that goes by the table alone and creates it afresh whenever
\* it is asked to
selection_named_recreate(db, text, newname, parameters, force, looked) ==
    IF looked.value
    THEN selection_create(selection_drop(db, newname), newname,
                          Exec(selection_drop(db, newname), text, parameters, TRUE),
                          looked.cache, <<"DROP", "CREATE">>)
    ELSE selection_create(db, newname, Exec(db, text, parameters, TRUE), looked.cache,
                          <<"CREATE">>)

\* lines 526-544: looked is has_table(newname)
selection_named(db, text, newname, parameters, force, looked) ==
    IF looked.value /\ ~force
    THEN Bound(SQLarray_init(db, newname, None, FALSE), looked.cache, newname, <<>>)
    ELSE IF looked.value
    THEN selection_create(selection_drop(db, newname), newname,
                          Exec(selection_drop(db, newname), text, parameters, TRUE),
                          looked.cache, <<"DROP", "CREATE">>)
    ELSE selection_create(db, newname, Exec(db, text, parameters, TRUE), looked.cache,
                          <<"CREATE">>)

\* a selection() that does not look at the name it was given
selection_text_unchecked(db, self, text, parameters, name, force) ==
    selection_named(db, text, NewName(text, name), parameters, force,
                    has_table(db, self, NewName(text, name)))

\* lines 520-526: text is _sql after the alias is replaced
selection_text(db, self, text, parameters, name, force) ==
    IF NewName(text, name) \in {SELF, self.name}
    THEN [db |-> db, exc |-> "ValueError", obj |-> NoHandle, cache |-> self.cache,
          newname |-> NewName(text, name), steps |-> <<>>]
    ELSE IF ~db.connected
    THEN [db |-> db, exc |-> "ProgrammingError", obj |-> NoHandle, cache |-> self.cache,
          newname |-> NewName(text, name), steps |-> <<>>]
    ELSE selection_named(db, text, NewName(text, name), parameters, force,
                         has_table(db, self, NewName(text, name)))

\* line 544: the new object inherits dbfile
Inherit(self, s) ==
    IF s.exc = "" THEN [s EXCEPT !.obj.dbfile = self.dbfile] ELSE s

\* SQLarray.selection(SQL, parameters, name=name, force=force)
selection(db, self, SQL, parameters, name, force) ==
    Inherit(self, selection_text(db, self, SelectionText(self, SQL), parameters, name,
                                 force))

\* ------------------------------------------------------------------ state
VARIABLES
    db,         \* the database behind the shared connection
    handles,    \* the SQLarray objects: state, table name, query cache
    call,       \* the last call made on a handle, with what it returned
    recent      \* history: per handle, the cacheable queries last executed

vars == <<db, handles, call, recent>>

\* what a caller sees of one call: its arguments (key is the text after the
\* alias is replaced), the number of entries the handle's cache held when the
\* call was made, and the outcome
Call(op, h, SQL, key, parameters, asrecarray, cache, held, r) ==
    [op |-> op, h |-> h, SQL |-> SQL, key |-> key, parameters |-> parameters,
     asrecarray |-> asrecarray, cache |-> cache, held |-> held,
     executed |-> r.executed, rowcount |-> r.rowcount, exc |-> r.exc, ret |-> r.ret,
     value |-> -1]

\* the same for merge, merge_table, selection, the constructor and close
OpCall(op, h, parameters, held, exc, value) ==
    [op |-> op, h |-> h, SQL |-> <<>>, key |-> <<>>, parameters |-> parameters,
     asrecarray |-> FALSE, cache |-> FALSE, held |-> held,
     executed |-> TRUE, rowcount |-> -1, exc |-> exc, ret |-> NoResult,
     value |-> value]

NoCall == [op |-> "init", h |-> 0, SQL |-> <<>>, key |-> <<>>, parameters |-> None,
           asrecarray |-> FALSE, cache |-> FALSE, held |-> 0, executed |-> FALSE,
           rowcount |-> -1, exc |-> "", ret |-> NoResult, value |-> -1]

\* sequences over S of length at most n
RECURSIVE SeqsUpTo(_, _)
SeqsUpTo(S, n) ==
    IF n = 0 THEN {<<>>}
    ELSE LET shorter == SeqsUpTo(S, n - 1)
         IN shorter \cup {Append(q, x) : q \in shorter, x \in S}

Records == SeqsUpTo(Values, MaxRows)

InitDb(records) ==
    [exists |-> {"t"}, temp |-> {}, unique |-> {}, connected |-> TRUE,
     rows |-> [T \in TableNames |-> IF T = "t" THEN records ELSE <<>>],
     counter |-> 1]

Init ==
    /\ \E records \in Records : db = InitDb(records)
    /\ handles = [h \in Handles |-> IF h = 1 THEN NewHandle("t") ELSE NoHandle]
    /\ call = NoCall
    /\ recent = [h \in Handles |-> <<>>]

\* the statement the store would grow a table with
Grows(SQL) == Len(SQL) = 7 /\ SQL = InsertValue(SQL[3])

\* the store saw a mutation in this call: the test of sql() before clear()
Detected(key, r) ==
    r.executed /\ r.exc \in {"", "TypeError"} /\ (r.rowcount > 0 \/ FindDELETE(key))

RECURSIVE Without(_, _)
Without(q, x) ==
    IF q = <<>> THEN <<>>
    ELSE IF Head(q) = x THEN Without(Tail(q), x)
         ELSE <<Head(q)>> \o Without(Tail(q), x)

LastN(q, n) == IF Len(q) <= n THEN q ELSE SubSeq(q, Len(q) - n + 1, Len(q))

\* history of the last cachesize distinct cacheable queries (cache=True, no
\* placeholder, rows returned) that ran against the store since the last
\* detected mutation
RecentAfter(rec, key, cache, r) ==
    LET base == IF Detected(key, r) THEN <<>> ELSE rec
    IN  IF r.executed /\ r.exc = "" /\ cache /\ ~HasPlaceholder(key) /\ r.ret.rows # <<>>
        THEN LastN(Append(Without(base, key), key), cachesize)
        ELSE base

RECURSIVE RecentFold(_, _)
RecentFold(rec, calls) ==
    IF calls = <<>> THEN rec
    ELSE RecentFold(RecentAfter(rec, Head(calls).key, Head(calls).cache, Head(calls).r),
                    Tail(calls))

\* one cache for all objects (a class attribute)
SetCache_shared(hs, h, kr) == [b \in DOMAIN hs |-> [hs[b] EXCEPT !.cache = kr]]

\* the cache a call leaves is the cache of the object it was called on
SetCache(hs, h, kr) == [hs EXCEPT ![h].cache = kr]

Held(h) == Cardinality(DOMAIN handles[h].cache.items)

\* the call returns: r is what sql() left
SqlReturns(h, SQL, key, parameters, asrecarray, cache, r) ==
    /\ db' = r.db
    /\ handles' = SetCache(handles, h, r.cache)
    /\ call' = Call("sql", h, SQL, key, parameters, asrecarray, cache, Held(h), r)
    /\ recent' = [recent EXCEPT ![h] = RecentAfter(@, key, cache, r)]

\* no INSERT beyond MaxRows rows
Room(key) == Grows(key) => (key[3] \in db.exists => Len(db.rows[key[3]]) < MaxRows)

\* T.sql(SQL, parameters, asrecarray, cache)
Sql(h, SQL, parameters, asrecarray, cache, reliable) ==
    /\ handles[h].state = "open"
    /\ Room(Replace(SQL, SELF, handles[h].name))
    /\ SqlReturns(h, SQL, Replace(SQL, SELF, handles[h].name), parameters, asrecarray,
                  cache, sql(db, handles[h], SQL, parameters, asrecarray, cache, reliable))

OpReturns(op, h, parameters, m) ==
    /\ db' = m.db
    /\ handles' = SetCache(handles, h, m.cache)
    /\ call' = OpCall(op, h, parameters, Held(h), m.exc, m.value)
    /\ recent' = [recent EXCEPT ![h] = RecentFold(@, m.calls)]

\* T.merge(recarray)
Merge(h, recarray) ==
    /\ handles[h].state = "open"
    /\ handles[h].name \in db.exists =>
           Len(db.rows[handles[h].name]) + Len(recarray) <= MaxRows
    /\ OpReturns("merge", h, Tuple(recarray), merge(db, handles[h], recarray))

\* T.merge_table(name)
MergeTable(h, name) ==
    /\ handles[h].state = "open"
    /\ {handles[h].name, name} \subseteq db.exists =>
           Len(db.rows[handles[h].name]) + Len(db.rows[name]) <= MaxRows
    /\ OpReturns("merge_table", h, None, merge_table(db, handles[h], name))

\* what a caller sees of a selection() call: the arguments, the text
\* selected from, the relation the returned object is bound to and the
\* statements selection() sent to the cursor
SelectionCall(h, SQL, key, parameters, name, force, held, s) ==
    [op |-> "selection", h |-> h, SQL |-> SQL, key |-> key, parameters |-> parameters,
     asrecarray |-> FALSE, cache |-> FALSE, held |-> held,
     executed |-> TRUE, rowcount |-> -1, exc |-> s.exc, ret |-> NoResult,
     value |-> -1, name |-> name, force |-> force, newname |-> s.newname,
     bound |-> s.obj.name, steps |-> s.steps]

SelectionReturns(h, g, SQL, parameters, name, force, s) ==
    /\ db' = s.db
    /\ handles' = IF s.exc = ""
                  THEN [SetCache(handles, h, s.cache) EXCEPT ![g] = s.obj]
                  ELSE SetCache(handles, h, s.cache)
    /\ call' = SelectionCall(h, SQL, SelectionText(handles[h], SQL), parameters, name,
                             force, Held(h), s)
    /\ UNCHANGED recent

\* S = T.selection(SQL, parameters, name=name, force=force); S is the object g
Selection(h, g, SQL, parameters, name, force) ==
    /\ handles[h].state = "open"
    /\ handles[h].name = "t"
    /\ handles[g].state = "none"
    /\ SelectionReturns(h, g, SQL, parameters, name, force,
                        selection(db, handles[h], SQL, parameters, name, force))

\* the returned object is not kept: it is reclaimed at once (__del__ = close)
SelectionDroppedReturns(h, SQL, parameters, name, force, s) ==
    /\ db' = IF s.exc = "" THEN close(s.db, s.obj).db ELSE s.db
    /\ handles' = SetCache(handles, h, s.cache)
    /\ call' = SelectionCall(h, SQL, SelectionText(handles[h], SQL), parameters, name,
                             force, Held(h), s)
    /\ UNCHANGED recent

\* T.selection(SQL, parameters, name=name, force=force), the value dropped
SelectionDropped(h, SQL, parameters, name, force) ==
    /\ handles[h].state = "open"
    /\ handles[h].name = "t"
    /\ SelectionDroppedReturns(h, SQL, parameters, name, force,
                               selection(db, handles[h], SQL, parameters, name, force))

\* key: the name the table of the new object has or would have had
NewReturns(op, g, name, records, c) ==
    /\ db' = c.db
    /\ handles' = IF c.exc = "" THEN [handles EXCEPT ![g] = c.obj] ELSE handles
    /\ call' = [OpCall(op, g, records, 0, c.exc, -1) EXCEPT !.key = <<name>>]
    /\ UNCHANGED recent

\* g = SQLarray(name, records, columns=("a",), connection=T.connection)
New(g, name, records) ==
    /\ handles[g].state = "none"
    /\ NewReturns("new", g, name, records, SQLarray_init(db, name, records, FALSE))

CloseReturns(h, c) ==
    /\ db' = c.db
    /\ handles' = [SetCache(handles, h, c.cache) EXCEPT
                       ![h].state = IF db.connected THEN "closed" ELSE @]
    /\ call' = OpCall("close", h, None, Held(h),
                      IF db.connected THEN "" ELSE "ProgrammingError", -1)
    /\ UNCHANGED recent

\* T.close()
Close(h) ==
    /\ handles[h].state = "open"
    /\ CloseReturns(h, close(db, handles[h]))

\* a close() call after the first, or the one made by __del__: the object
\* keeps no record of having been closed, so close() runs as ever
AgainReturns(op, h, to, c) ==
    /\ db' = c.db
    /\ handles' = [SetCache(handles, h, c.cache) EXCEPT ![h].state = to]
    /\ call' = OpCall(op, h, None, Held(h),
                      IF db.connected THEN "" ELSE "ProgrammingError", -1)
    /\ UNCHANGED recent

\* T.close() on a handle closed before (followed here once per handle)
CloseAgain(h) ==
    /\ handles[h].state = "closed"
    /\ AgainReturns("close again", h, "reclosed", close(db, handles[h]))

\* del T: the object is reclaimed, open or closed (__del__ = close)
Destroy(h) ==
    /\ handles[h].state \in {"open", "closed", "reclosed"}
    /\ AgainReturns(IF handles[h].state = "open" THEN "del" ELSE "del closed", h,
                    "deleted", close(db, handles[h]))

\* what a rejected call on the cache leaves: the cache and the exception
Rejected(cache) == [cache |-> cache, exc |-> "NotImplementedError"]

\* dict's own item assignment, which KRingbuffer overrides
KRingbuffer_setitem_dict(cache, k, v) ==
    [cache |-> [cache EXCEPT !.items = (k :> v) @@ @], exc |-> ""]

\* KRingbuffer.__setitem__, __delitem__ and update (lines 691-696)
KRingbuffer_setitem(cache, k, v) == Rejected(cache)

KRingbuffer_delitem(cache, k) == Rejected(cache)

KRingbuffer_update(cache, items) == Rejected(cache)

\* a call made on the cache of handle h itself
CacheReturns(op, h, k, r) ==
    /\ handles' = SetCache(handles, h, r.cache)
    /\ call' = [OpCall(op, h, None, Held(h), r.exc, -1) EXCEPT !.key = k]
    /\ UNCHANGED <<db, recent>>

SetItem(h, k, v) ==
    /\ handles[h].state = "open"
    /\ CacheReturns("setitem", h, k, KRingbuffer_setitem(handles[h].cache, k, v))

DelItem(h, k) ==
    /\ handles[h].state = "open"
    /\ CacheReturns("delitem", h, k, KRingbuffer_delitem(handles[h].cache, k))

Update(h, k, v) ==
    /\ handles[h].state = "open"
    /\ CacheReturns("update", h, k, KRingbuffer_update(handles[h].cache, k :> v))

\* cache.append(k, v) and cache.clear() called on the cache of handle h
AppendItem(h, k, v) ==
    /\ handles[h].state = "open"
    /\ handles' = SetCache(handles, h, KRingbuffer_append(handles[h].cache, k, v))
    /\ call' = [OpCall("append", h, None, Held(h), "", -1) EXCEPT !.key = k, !.ret = v]
    /\ UNCHANGED <<db, recent>>

ClearCache(h) ==
    /\ handles[h].state = "open"
    /\ handles' = SetCache(handles, h, KRingbuffer_clear(handles[h].cache))
    /\ call' = OpCall("clear", h, None, Held(h), "", -1)
    /\ UNCHANGED <<db, recent>>

\* the statements a caller passes to sql()
Texts ==
    { SelectAll(SELF), SelectAll("t"), SelectWhere(SELF), SelectTwice(SELF),
      SelectAs(SELF), sql_select(<<"COUNT()", "AS", "length">>),
      InsertValue(SELF), DeleteFrom(SELF) }

Parameters == {None} \cup {Tuple(<<v>>) : v \in Values}

\* the parameters worth passing with a text: any for a text with a
\* placeholder (None makes the binding fail), None for one without
ParametersFor(SQL) == IF HasPlaceholder(SQL) THEN Parameters ELSE {None}

\* the engine's two ways of counting matter to an unqualified DELETE only
ReliableFor(SQL) == IF Len(SQL) = 3 /\ SQL = DeleteFrom(SQL[3]) THEN BOOLEAN ELSE {TRUE}

Next ==
    \E SQL \in Texts, asrecarray \in BOOLEAN, cache \in BOOLEAN :
        \E parameters \in ParametersFor(SQL), reliable \in ReliableFor(SQL) :
            Sql(1, SQL, parameters, asrecarray, cache, reliable)

Spec == Init /\ [][Next]_vars

\* ------------------------------------------------------------------ one handle
\* The handle T of table t alone on its connection: statements through
\* sql(), merge and merge_table.
TextsOne ==
    { SelectAll(SELF), InsertValue(SELF), DeleteFrom(SELF),
      DropTable(SELF), CreateTable(SELF) }

NextOne ==
    \/ \E SQL \in TextsOne, asrecarray \in BOOLEAN, cache \in BOOLEAN :
          \E parameters \in ParametersFor(SQL), reliable \in ReliableFor(SQL) :
              Sql(1, SQL, parameters, asrecarray, cache, reliable)
    \/ \E recarray \in Records : Merge(1, recarray)
    \/ MergeTable(1, "t")

SpecOne == Init /\ [][NextOne]_vars

\* ------------------------------------------------------------------ handles
\* Several handles on one connection: T on table t, and whatever is
\* constructed next to it or derived from it.
TextsShared == { SelectAll(SELF), InsertValue(SELF), DeleteFrom(SELF) }

\* records of at most one row, of value 1
RecordsShared == {<<>>, <<1>>}

InitShared ==
    /\ db = InitDb(<<1>>)
    /\ handles = [h \in Handles |-> IF h = 1 THEN NewHandle("t") ELSE NoHandle]
    /\ call = NoCall
    /\ recent = [h \in Handles |-> <<>>]

NextShared ==
    \/ \E h \in Handles, SQL \in TextsShared, cache \in BOOLEAN :
          \E reliable \in ReliableFor(SQL) :
              Sql(h, SQL, IF HasPlaceholder(SQL) THEN Tuple(<<1>>) ELSE None,
                  TRUE, cache, reliable)
    \/ \E h \in Handles, recarray \in RecordsShared : Merge(h, recarray)
    \/ \E h \in Handles : MergeTable(h, "u")
    \/ \E h, g \in Handles, SQL \in {SelectAll(SELF), WhereClause}, force \in BOOLEAN :
          Selection(h, g, SQL, IF SQL = WhereClause THEN Tuple(<<1>>) ELSE None, None,
                    force)
    \/ \E g \in Handles, name \in {"t", "u"}, records \in {None, Tuple(<<1>>)} :
          New(g, name, records)
    \/ \E h \in Handles : Close(h)

SpecShared == InitShared /\ [][NextShared]_vars

\* ------------------------------------------------------------------ merge
\* T bound to table t, which was created with or without UNIQUE on its
\* column: rows are merged into it, and inserted and deleted through sql().
TextsMerge == { SelectAll(SELF), InsertValue(SELF), DeleteFrom(SELF) }

\* one value for the placeholder of a text that has one
Bindings(SQL) ==
    IF HasPlaceholder(SQL) THEN {Tuple(<<v>>) : v \in Values} ELSE {None}

InitMerge ==
    /\ \E records \in Records, unique \in SUBSET {"t"} :
          /\ "t" \in unique => Distinct(records)
          /\ db = [InitDb(records) EXCEPT !.unique = unique]
    /\ handles = [h \in Handles |-> IF h = 1 THEN NewHandle("t") ELSE NoHandle]
    /\ call = NoCall
    /\ recent = [h \in Handles |-> <<>>]

NextMerge ==
    \/ \E SQL \in TextsMerge, cache \in BOOLEAN :
          \E parameters \in Bindings(SQL) :
              Sql(1, SQL, parameters, TRUE, cache, TRUE)
    \/ \E recarray \in Records : Merge(1, recarray)

SpecMerge == InitMerge /\ [][NextMerge]_vars

\* ------------------------------------------------------------------ selection
\* T on table t, whose rows come and go through sql(), and the tables
\* selected from it: under the autogenerated name or a given one, kept as
\* the object S or dropped at once.
TextsSelection == { InsertValue(SELF), DeleteFrom(SELF) }

Selections == { SelectAll(SELF), WhereClause }

Names == { None, Name("t"), Name(SELF) }

NextSelection ==
    \/ \E SQL \in TextsSelection : \E parameters \in Bindings(SQL) :
          Sql(1, SQL, parameters, TRUE, TRUE, TRUE)
    \/ \E SQL \in Selections, name \in Names, force \in BOOLEAN :
          \E parameters \in ParametersFor(SQL) :
              Selection(1, 2, SQL, parameters, name, force)
    \/ \E SQL \in Selections, name \in Names, force \in BOOLEAN :
          \E parameters \in ParametersFor(SQL) :
              SelectionDropped(1, SQL, parameters, name, force)

SpecSelection == Init /\ [][NextSelection]_vars

\* ------------------------------------------------------------------ close
\* T on table t, in memory or on disk (dbfile given), the handles made next
\* to it on its connection, and their ends: close(), close() again, del.
dbfiles == { memory, "db.sqlite" }

InitClose ==
    /\ db = InitDb(<<1>>)
    /\ \E dbfile \in dbfiles :
          handles = [h \in Handles |->
                        IF h = 1 THEN [NewHandle("t") EXCEPT !.dbfile = dbfile]
                        ELSE NoHandle]
    /\ call = NoCall
    /\ recent = [h \in Handles |-> <<>>]

NextClose ==
    \/ \E h \in Handles, cache \in BOOLEAN :
          Sql(h, SelectAll(SELF), None, FALSE, cache, TRUE)
    \/ \E h \in Handles, recarray \in RecordsShared : Merge(h, recarray)
    \/ \E h, g \in Handles, force \in BOOLEAN :
          Selection(h, g, SelectAll(SELF), None, None, force)
    \/ \E g \in Handles, name \in {"t", "u"}, records \in {None, Tuple(<<1>>)} :
          New(g, name, records)
    \/ \E h \in Handles : Close(h)
    \/ \E h \in Handles : CloseAgain(h)
    \/ \E h \in Handles : Destroy(h)

SpecClose == InitClose /\ [][NextClose]_vars

\* ------------------------------------------------------------------ parameters
\* one handle; every text is passed with every parameters value: none, the
\* empty tuple, a tuple of one value
ParametersAny == Parameters \cup {Tuple(<<>>)}

NextParameters ==
    \E SQL \in {SelectAll(SELF), SelectWhere(SELF), InsertValue(SELF), DeleteFrom(SELF)},
       parameters \in ParametersAny, asrecarray \in BOOLEAN, cache \in BOOLEAN :
        Sql(1, SQL, parameters, asrecarray, cache, TRUE)

SpecParameters == Init /\ [][NextParameters]_vars

\* ------------------------------------------------------------------ cache
\* one handle, its queries, and direct calls on its cache
TextsCache == {SelectAll(SELF), SelectCount(SELF), InsertValue(SELF)}

NextCache ==
    \/ \E SQL \in TextsCache, asrecarray \in BOOLEAN, cache \in BOOLEAN :
          \E parameters \in ParametersFor(SQL) :
             Sql(1, SQL, parameters, asrecarray, cache, TRUE)
    \/ \E SQL \in TextsCache, rows \in Records :
          SetItem(1, Replace(SQL, SELF, "t"), ListOfTuples(rows))
    \/ \E SQL \in TextsCache : DelItem(1, Replace(SQL, SELF, "t"))
    \/ \E SQL \in TextsCache, rows \in Records :
          Update(1, Replace(SQL, SELF, "t"), ListOfTuples(rows))

SpecCache == Init /\ [][NextCache]_vars

\* ------------------------------------------------------------------ rest_table
\* A text is a sequence of lines and a line a sequence of characters (strings
\* of length one), so that columns can be counted as the parser counts them.
Digits == <<"0", "1", "2", "3", "4", "5", "6", "7", "8", "9">>

Letters ==
    {"a", "b", "c", "d", "e", "f", "g", "h", "i", "j", "k", "l", "m", "n",
     "o", "p", "q", "r", "s", "t", "u", "v", "w", "x", "y", "z", "A", "B",
     "C", "D", "E", "F", "G", "H", "I", "J", "K", "L", "M", "N", "O", "P",
     "Q", "R", "S", "T", "U", "V", "W", "X", "Y", "Z"}

\* \w of the regular expressions
DigitChars == {Digits[i] : i \in DOMAIN Digits}

Word == Letters \cup DigitChars \cup {"_"}

\* the characters str.strip, str.rstrip and str.split take for white space
\* (within one line)
Blank == {" ", "\t"}

RECURSIVE Join(_)
\* the string made of the characters cs
Join(cs) == IF cs = <<>> THEN "" ELSE cs[1] \o Join(Tail(cs))

RECURSIVE rstrip(_)
rstrip(s) ==
    IF s # <<>> /\ s[Len(s)] \in Blank THEN rstrip(SubSeq(s, 1, Len(s) - 1)) ELSE s

RECURSIVE lstrip(_)
lstrip(s) == IF s # <<>> /\ s[1] \in Blank THEN lstrip(Tail(s)) ELSE s

strip(s) == lstrip(rstrip(s))

RECURSIVE split_from(_, _, _)
\* str.split(): the runs of characters that are not white space
split_from(s, word, words) ==
    IF s = <<>>
    THEN IF word = <<>> THEN words ELSE Append(words, word)
    ELSE IF s[1] \in Blank
    THEN split_from(Tail(s), <<>>, IF word = <<>> THEN words ELSE Append(words, word))
    ELSE split_from(Tail(s), Append(word, s[1]), words)

split(s) == split_from(s, <<>>, <<>>)

\* line[start:stop], columns counted from 0
Slice(line, start, stop) ==
    SubSeq(line, start + 1, IF stop < Len(line) THEN stop ELSE Len(line))

\* a rule of TABLE: [ \t]*==+[ \t=]+ followed by [ \t]*$
IsRule(line) ==
    /\ \A i \in DOMAIN line : line[i] \in Blank \cup {"="}
    /\ Len(lstrip(line)) >= 3
    /\ lstrip(line)[1] = "="
    /\ lstrip(line)[2] = "="

\* the line of field names of TABLE: [\w\t ]+?
IsFields(line) ==
    /\ line # <<>>
    /\ \A i \in DOMAIN line : line[i] \in Word \cup Blank

RECURSIVE WordPrefix(_)
\* the longest prefix of s made of \w
WordPrefix(s) ==
    IF s # <<>> /\ s[1] \in Word THEN <<s[1]>> \o WordPrefix(Tail(s)) ELSE <<>>

\* what follows "Table" in the first line of TABLE: [name] and a colon, or
\* the colon alone (no name: None)
TableName(rest) ==
    IF rest # <<>> /\ rest[1] = ":"
    THEN [ok |-> TRUE, name |-> None]
    ELSE IF /\ rest # <<>> /\ rest[1] = "["
            /\ Len(rest) >= Len(WordPrefix(Tail(rest))) + 3
            /\ rest[Len(WordPrefix(Tail(rest))) + 2] = "]"
            /\ rest[Len(WordPrefix(Tail(rest))) + 3] = ":"
    THEN [ok |-> TRUE, name |-> [none |-> FALSE, v |-> Join(WordPrefix(Tail(rest)))]]
    ELSE [ok |-> FALSE, name |-> None]

\* the first line of TABLE: ^[ \t]*Table(\[(?P<name>\w*)\])?:
Heading(line) ==
    IF /\ Len(lstrip(line)) >= 5
       /\ SubSeq(lstrip(line), 1, 5) = <<"T", "a", "b", "l", "e">>
    THEN TableName(SubSeq(lstrip(line), 6, Len(lstrip(line))))
    ELSE [ok |-> FALSE, name |-> None]

\* the lines after the middle rule at which a bottom rule can stand: the
\* data (.*?) takes one line at least
BottomRules(lines, i) == {j \in (i + 5)..Len(lines) : IsRule(lines[j])}

\* TABLE matches with its first line at line i (texts without empty lines)
MatchesAt(lines, i) ==
    /\ i + 5 <= Len(lines)
    /\ Heading(lines[i]).ok
    /\ IsRule(lines[i + 1])
    /\ IsFields(lines[i + 2])
    /\ IsRule(lines[i + 3])
    /\ BottomRules(lines, i) # {}

Least(S) == CHOOSE j \in S : \A k \in S : j <= k

\* m.groupdict() of the match at line i; the data are the lines up to the
\* first rule that follows (non-greedy)
Groups(lines, i, j) ==
    [name |-> Heading(lines[i]).name,
     toprule |-> lines[i + 1],
     fields |-> lines[i + 2],
     midrule |-> lines[i + 3],
     data |-> SubSeq(lines, i + 4, j - 1),
     botrule |-> lines[j]]

\* TABLE.search(string): the leftmost match, or none
TABLE_search(lines) ==
    IF \E i \in DOMAIN lines : MatchesAt(lines, i)
    THEN [none |-> FALSE,
          v |-> Groups(lines, Least({i \in DOMAIN lines : MatchesAt(lines, i)}),
                       Least(BottomRules(lines,
                                         Least({i \in DOMAIN lines : MatchesAt(lines, i)}))))]
    ELSE [none |-> TRUE, v |-> <<>>]

\* the parser object: the groups of the match, the table name, and names,
\* fields and records once parse_fields() and parse() have set them
Parser(op, string, t, tablename, names, fields, records, exc, message) ==
    [op |-> op, string |-> string, t |-> t, tablename |-> tablename, names |-> names, fields |-> fields,
     records |-> records, exc |-> exc, message |-> message]

\* Table2array.__init__ (lines 168-178)
Table2array_matched(string, m) ==
    IF m.none
    THEN Parser("Table2array", string, <<>>, None, None, None, None,
                "ParseError", "Table cannot be parsed.")
    ELSE Parser("Table2array", string, m.v, m.v.name, None, None, None, "", "")

Table2array(string) == Table2array_matched(string, TABLE_search(string))

\* the comparison of line 226 without the bottom rule
RulesAgree_topmid(t) == rstrip(t.toprule) = rstrip(t.midrule)

\* line 226: the three rules, trailing white space removed, are the same
RulesAgree(t) ==
    /\ rstrip(t.toprule) = rstrip(t.midrule)
    /\ rstrip(t.toprule) = rstrip(t.botrule)

RECURSIVE Scan(_, _, _, _, _)
\* lines 239-248: the pass over the rule, column c (from 0), that collects
\* the (first, last) columns of the fields
Scan(rule, c, is_field, start_field, fields) ==
    IF c = Len(rule)
    THEN fields
    ELSE IF (is_field \/ rule[c + 1] = "=") /\ (rule[c + 1] = " " \/ c = Len(rule) - 1)
    THEN Scan(rule, c + 1, FALSE,
              IF ~is_field /\ rule[c + 1] = "=" THEN c ELSE start_field,
              Append(fields, <<IF ~is_field /\ rule[c + 1] = "=" THEN c ELSE start_field, c>>))
    ELSE Scan(rule, c + 1, is_field \/ rule[c + 1] = "=",
              IF ~is_field /\ rule[c + 1] = "=" THEN c ELSE start_field,
              fields)

\* Table2array.parse_fields
parse_fields_rule(P, rule, names) ==
    IF ~RulesAgree(P.t)
    THEN [P EXCEPT !.op = "parse_fields", !.exc = "ParseError",
                   !.message = "Table rules differ from each other"]
    ELSE IF Len(split(rule)) # Len(names)
    THEN [P EXCEPT !.op = "parse_fields", !.exc = "ParseError",
                   !.message = "number of field names does not match number of fields"]
    ELSE [P EXCEPT !.op = "parse_fields",
                   !.names = [none |-> FALSE, v |-> [i \in DOMAIN names |-> Join(names[i])]],
                   !.fields = [none |-> FALSE,
                               v |-> Scan(rule, 0, rule # <<>> /\ rule[1] = "=", 0, <<>>)]]

parse_fields(P) == parse_fields_rule(P, rstrip(P.t.toprule), split(P.t.fields))

\* EMPTY_ROW: ^[-\s]*$
IsEmptyRow(line) == \A i \in DOMAIN line : line[i] \in Blank \cup {"-"}

DigitOf(c) == (CHOOSE d \in DOMAIN Digits : Digits[d] = c) - 1

IsDigits(s) == s # <<>> /\ \A i \in DOMAIN s : s[i] \in DigitChars

Unsigned(s) == IF s # <<>> /\ s[1] \in {"+", "-"} THEN Tail(s) ELSE s

RECURSIVE Number(_)
Number(s) == IF s = <<>> THEN 0 ELSE 10 * Number(SubSeq(s, 1, Len(s) - 1)) + DigitOf(s[Len(s)])

\* int(x) succeeds: a sign and decimal digits
IsInt(s) == IsDigits(Unsigned(s))

IntOf(s) == IF s[1] = "-" THEN 0 - Number(Tail(s)) ELSE Number(Unsigned(s))

\* float(x) succeeds: digits with one decimal point (the data of the tables
\* parsed here spell no exponent, inf or nan)
IsFloat(s) ==
    \E i \in DOMAIN Unsigned(s) :
        /\ Unsigned(s)[i] = "."
        /\ Len(Unsigned(s)) > 1
        /\ \A j \in DOMAIN Unsigned(s) : j # i => Unsigned(s)[j] \in DigitChars

\* the match of line 355: a quote first and a quote last
IsQuoted(s) == Len(s) >= 2 /\ s[1] \in {"'", "\""} /\ s[Len(s)] \in {"'", "\""}

\* besttype on the value stripped of white space
besttype_stripped(x) ==
    IF IsQuoted(x) THEN Join(SubSeq(x, 2, Len(x) - 1))
    ELSE IF IsInt(x) THEN IntOf(x)
    ELSE IF IsFloat(x) THEN [float |-> Join(x)]
    ELSE Join(x)

besttype(x) == besttype_stripped(strip(x))

\* lines 190-192: the record of one line of data
Row(line, fields) ==
    [k \in DOMAIN fields |-> besttype(Slice(line, fields[k][1], fields[k][2] + 1))]

RECURSIVE Rows_lastFirst(_, _)
\* the records in the reverse of the order of the lines
Rows_lastFirst(data, fields) ==
    IF data = <<>> THEN <<>>
    ELSE IF IsEmptyRow(data[1]) THEN Rows_lastFirst(Tail(data), fields)
    ELSE Rows_lastFirst(Tail(data), fields) \o <<Row(data[1], fields)>>

RECURSIVE Rows(_, _)
\* lines 186-192
Rows(data, fields) ==
    IF data = <<>> THEN <<>>
    ELSE IF IsEmptyRow(data[1]) THEN Rows(Tail(data), fields)
    ELSE <<Row(data[1], fields)>> \o Rows(Tail(data), fields)

\* Table2array.parse, on the object parse_fields() leaves
parse_records(F) ==
    IF F.exc # ""
    THEN [F EXCEPT !.op = "parse"]
    ELSE [F EXCEPT !.op = "parse",
                   !.records = [none |-> FALSE, v |-> Rows(F.t.data, F.fields.v)]]

parse(P) == parse_records(parse_fields(P))

\* the example of the module's documentation (lines 44-55)
Laureates ==
    <<<<"T", "h", "e", " ", "f", "o", "l", "l", "o", "w", "i", "n", "g", " ", "t", "a",
        "b", "l", "e", " ", "i", "s", " ", "c", "o", "n", "v", "e", "r", "t", "e", "d",
        ":", ":">>,
      <<" ", " ", "T", "a", "b", "l", "e", "[", "l", "a", "u", "r", "e", "a", "t", "e",
        "s", "]", ":", " ", "P", "h", "y", "s", "i", "c", "s", " ", "N", "o", "b", "e",
        "l", " ", "p", "r", "i", "z", "e", " ", "s", "t", "a", "t", "i", "s", "t", "i",
        "c", "s", ".">>,
      <<" ", " ", "=", "=", "=", "=", "=", "=", "=", "=", "=", "=", "=", "=", "=", " ",
        " ", "=", "=", "=", "=", "=", "=", "=", "=", "=", "=", " ", " ", "=", "=", "=",
        "=", "=", "=", "=", "=", "=">>,
      <<" ", " ", "n", "a", "m", "e", " ", " ", " ", " ", " ", " ", " ", " ", " ", " ",
        " ", "a", "g", "e", " ", " ", " ", " ", " ", " ", " ", " ", " ", "y", "e", "a",
        "r">>,
      <<" ", " ", "=", "=", "=", "=", "=", "=", "=", "=", "=", "=", "=", "=", "=", " ",
        " ", "=", "=", "=", "=", "=", "=", "=", "=", "=", "=", " ", " ", "=", "=", "=",
        "=", "=", "=", "=", "=", "=">>,
      <<" ", " ", "A", ".", " ", "E", "i", "n", "s", "t", "e", "i", "n", " ", " ", " ",
        " ", "4", "2", " ", " ", " ", " ", " ", " ", " ", " ", " ", " ", "1", "9", "2",
        "1">>,
      <<" ", " ", "P", ".", " ", "D", "i", "r", "a", "c", " ", " ", " ", " ", " ", " ",
        " ", "3", "1", " ", " ", " ", " ", " ", " ", " ", " ", " ", " ", "1", "9", "3",
        "3">>,
      <<" ", " ", "R", ".", " ", "P", ".", " ", "F", "e", "y", "n", "m", "a", "n", " ",
        " ", "4", "7", " ", " ", " ", " ", " ", " ", " ", " ", " ", " ", "1", "9", "6",
        "5">>,
      <<" ", " ", "=", "=", "=", "=", "=", "=", "=", "=", "=", "=", "=", "=", "=", " ",
        " ", "=", "=", "=", "=", "=", "=", "=", "=", "=", "=", " ", " ", "=", "=", "=",
        "=", "=", "=", "=", "=", "=">>,
      <<"w", "i", "t", "h">>>>

\* the longest rule the texts are built from
MaxRule == 5

\* the lines of length n over chars
LinesOver(chars, n) == {[i \in 1..n |-> f[i]] : f \in [1..n -> chars]}

RuleLines == UNION {LinesOver({"=", " ", "\t"}, n) : n \in 2..MaxRule}

\* a rule and what may be typed for the next one: the same, the same with
\* a blank after it, a longer one
Variants(rule) == {rule, rule \o <<" ">>, rule \o <<"=">>}

FieldLines == {<<"a">>, <<"a", " ", "b">>, <<"a", "\t", "b">>}

DataLines == {<<"1", " ", " ", "2">>, <<"x", "y">>}

\* "Table[t]:" and one table of one line of data
TextsWith(top) ==
    {<<<<"T", "a", "b", "l", "e", "[", "t", "]", ":">>, top, fields, mid, data, bot>> :
        fields \in FieldLines, mid \in Variants(top), data \in DataLines,
        bot \in Variants(top)}

\* the texts given to the parser: a table under every rule, and the table
\* of the laureates
InitParse ==
    /\ db = InitDb(<<1>>)
    /\ handles = [h \in Handles |-> IF h = 1 THEN NewHandle("t") ELSE NoHandle]
    /\ recent = [h \in Handles |-> <<>>]
    /\ \/ \E top \in RuleLines : \E string \in TextsWith(top) :
             call = Table2array(string)
       \/ call = Table2array(Laureates)

\* P.parse_fields()
ParseFields ==
    /\ call.op = "Table2array"
    /\ call.exc = ""
    /\ call' = parse_fields(call)
    /\ UNCHANGED <<db, handles, recent>>

\* P.parse()
Parse ==
    /\ call.op \in {"Table2array", "parse_fields"}
    /\ call.exc = ""
    /\ call' = parse(call)
    /\ UNCHANGED <<db, handles, recent>>

NextParse == ParseFields \/ Parse

SpecParse == InitParse /\ [][NextParse]_vars

\* ------------------------------------------------------------------ constructors
\* str(name) of line 144
Str(name) == IF name.none THEN "None" ELSE name.v

\* an object whose construction fails is reclaimed (__del__ = close) under
\* the name it has by then
Reclaimed(counted, name, exc) ==
    [db |-> close(counted, NewHandle(name)).db, exc |-> exc, obj |-> NoHandle]

\* lines 195-231 for the names and records of a text: CREATE TABLE fails
\* for a table that exists (the table sqlarray_master always does) and for a
\* column named twice; the records are the values of the first column
SQLarray_init_parsed(counted, name, P) ==
    IF P.exc # ""
    THEN Reclaimed(counted, name, P.exc)
    ELSE IF P.tablename.none
    THEN Reclaimed(counted, "None", "TypeError")
    ELSE IF \/ P.tablename.v = master
            \/ P.tablename.v \in counted.exists
            \/ ~Distinct(P.names.v)
    THEN Reclaimed(counted, P.tablename.v, "OperationalError")
    ELSE [db |-> [counted EXCEPT !.exists = @ \cup {P.tablename.v},
                                 !.rows[P.tablename.v] =
                                     [i \in DOMAIN P.records.v |-> P.records.v[i][1]]],
          exc |-> "", obj |-> NewHandle(P.tablename.v)]

\* lines 188-190: P = Table2array(records); P.parse()
Table2array_parse(P) == IF P.exc # "" THEN P ELSE parse(P)

\* SQLarray(name, records=string, connection=...): the text of a table
SQLarray_init_text(connection, name, string) ==
    IF Str(name) = tmp_table_name \/ Str(name) = master
    THEN [db |-> connection, exc |-> "ValueError", obj |-> NoHandle]
    ELSE IF ~connection.connected
    THEN [db |-> connection, exc |-> "ProgrammingError", obj |-> NoHandle]
    ELSE SQLarray_init_parsed(add_connection_counter(connection, 1), Str(name),
                              Table2array_parse(Table2array(string)))

\* SQLarray(name, records=[], columns=columns, connection=...): line 203
\* takes the columns as they are, CREATE TABLE (line 213) refuses a column
\* named twice and takes any other word
SQLarray_init_columns(connection, name, columns) ==
    IF name = tmp_table_name \/ name = master
    THEN [db |-> connection, exc |-> "ValueError", obj |-> NoHandle]
    ELSE IF ~connection.connected
    THEN [db |-> connection, exc |-> "ProgrammingError", obj |-> NoHandle]
    ELSE IF name \in connection.exists \/ ~Distinct(columns)
    THEN Reclaimed(add_connection_counter(connection, 1), name, "OperationalError")
    ELSE [db |-> [add_connection_counter(connection, 1) EXCEPT !.exists = @ \cup {name},
                                                        !.rows[name] = <<>>],
          exc |-> "", obj |-> NewHandle(name)]

\* the name in Table[<name>] when the text has a table, else None
TableNameOf(string) ==
    IF Table2array(string).exc = "" /\ ~Table2array(string).tablename.none
    THEN Table2array(string).tablename.v
    ELSE "None"

\* g = SQLarray(name, records=string, connection=T.connection)
NewFromText(g, name, string) ==
    /\ handles[g].state = "none"
    /\ NewReturns("new text", g, TableNameOf(string), None,
                  SQLarray_init_text(db, name, string))

\* g = SQLarray(name, records=[], columns=columns, connection=T.connection)
NewColumns(g, name, columns) ==
    /\ handles[g].state = "none"
    /\ NewReturns("new columns", g, name, Tuple(columns),
                  SQLarray_init_columns(db, name, columns))

\* a table of one column a and one record (1,) under the name of the chars
TextNamed(chars) ==
    <<<<"T", "a", "b", "l", "e", "[">> \o chars \o <<"]", ":">>,
      <<"=", "=", "=">>, <<"a">>, <<"=", "=", "=">>, <<"1">>, <<"=", "=", "=">>>>

NamedTexts ==
    {TextNamed(<<"u">>),
     TextNamed(<<"_", "_", "t", "m", "p", "_", "m", "e", "r", "g", "e", "_", "t", "a", "b", "l", "e">>),
     TextNamed(<<"s", "q", "l", "a", "r", "r", "a", "y", "_", "m", "a", "s", "t", "e", "r">>),
     <<<<"n", "o", " ", "t", "a", "b", "l", "e">>>>}

ColumnNames == {<<"a">>, <<"a", "b">>, <<"a", "a">>, <<"a", SELF>>}

\* T on table t, and every way of making a second object on its connection
NextNames ==
    \/ \E h \in Handles, SQL \in {SelectCount(SELF), DeleteFrom(SELF)} :
          Sql(h, SQL, None, FALSE, TRUE, TRUE)
    \/ \E h \in Handles, recarray \in RecordsShared : Merge(h, recarray)
    \/ \E g \in Handles, name \in {"t", "u", tmp_table_name, master},
          records \in {None, Tuple(<<1>>)} : New(g, name, records)
    \/ \E g \in Handles, name \in {None, Name("u"), Name(master)},
          string \in NamedTexts : NewFromText(g, name, string)
    \/ \E g \in Handles, name \in {"u", master}, columns \in ColumnNames :
          NewColumns(g, name, columns)
    \/ \E h \in Handles : Close(h)

SpecNames == InitShared /\ [][NextNames]_vars

\* ------------------------------------------------------------------ convert
\* A converted value with its Python type: str, int, float, bool, None or
\* tuple.  The two modules each have a besttype and an Autoconverter.
Value(type, v) == [type |-> type, v |-> v]

Quotes == {"'", "\""}

PyNone == Value("None", "None")

\* the type of what rest_table.besttype makes of the stripped token x
rest_type(x) ==
    IF IsQuoted(x) THEN "str"
    ELSE IF IsInt(x) THEN "int"
    ELSE IF IsFloat(x) THEN "float"
    ELSE "str"

\* rest_table.besttype
rest_besttype(x) == Value(rest_type(strip(x)), besttype(x))

\* the match of convert.py line 196: a quote first and the same quote last
IsQuotedSame(s) == Len(s) >= 2 /\ s[1] \in Quotes /\ s[Len(s)] = s[1]

\* percent(x) of convert.besttype succeeds: a number followed by %
IsPercent(s) ==
    /\ s # <<>>
    /\ s[Len(s)] = "%"
    /\ \/ IsInt(strip(SubSeq(s, 1, Len(s) - 1)))
       \/ IsFloat(strip(SubSeq(s, 1, Len(s) - 1)))

\* convert.besttype on the token stripped of white space
convert_besttype_stripped(x) ==
    IF IsQuotedSame(x) THEN Value("str", Join(SubSeq(x, 2, Len(x) - 1)))
    ELSE IF IsInt(x) THEN Value("int", IntOf(x))
    ELSE IF IsFloat(x) THEN Value("float", [float |-> Join(x)])
    ELSE IF IsPercent(x)
    THEN Value("float", [percent |-> Join(strip(SubSeq(x, 1, Len(x) - 1)))])
    ELSE Value("str", Join(x))

\* convert.besttype
convert_besttype(x) == convert_besttype_stripped(strip(x))

\* besttype of the module
besttype_of(module, x) ==
    IF module = "convert" THEN convert_besttype(x) ELSE rest_besttype(x)

RECURSIVE Before(_, _)
\* the characters of s before the first c
Before(s, c) == IF s = <<>> \/ s[1] = c THEN <<>> ELSE <<s[1]>> \o Before(Tail(s), c)

\* int(v) of the float v that the token s spells: the digits before the point
Truncated(s) ==
    IF Unsigned(Before(s, ".")) = <<>> THEN 0 ELSE IntOf(Before(s, "."))

\* besttype(v) for the number v = besttype(x).  rest_table: v has no
\* strip(), str(v) is not quoted, and int(v) is tried first, which takes a
\* float as well.  convert: re.match is given v itself, not a string.
besttype_again(module, x, v) ==
    IF module = "convert"
    THEN [exc |-> "TypeError", ret |-> PyNone]
    ELSE [exc |-> "",
          ret |-> IF v.type = "int" THEN v ELSE Value("int", Truncated(strip(x)))]

\* the default mapping of Autoconverter
Mapped(x) ==
    IF x.type # "str" THEN x
    ELSE IF x.v \in {"---", "None", "none", ""} THEN PyNone
    ELSE IF x.v \in {"True", "x", "X", "yes"} THEN Value("bool", TRUE)
    ELSE IF x.v \in {"False", "no", "-"} THEN Value("bool", FALSE)
    ELSE x

\* Autoconverter._convert_singlet
convert_singlet(module, s) == Mapped(besttype_of(module, s))

RECURSIVE split_on(_, _, _, _)
\* str.split(sep) for a character sep: the pieces between the separators
split_on(s, sep, piece, pieces) ==
    IF s = <<>> THEN Append(pieces, piece)
    ELSE IF s[1] = sep THEN split_on(Tail(s), sep, <<>>, Append(pieces, piece))
    ELSE split_on(Tail(s), sep, Append(piece, s[1]), pieces)

\* field.split(self.sep): sep None splits on white space
Pieces(sep, field) ==
    IF sep = "None" THEN split(field) ELSE split_on(field, sep, <<>>, <<>>)

\* the tuple of the converted pieces, kept as a tuple when it has one element
Fancy_wrapped(module, pieces) ==
    IF Len(pieces) = 0 THEN Value("str", "")
    ELSE Value("tuple", [i \in DOMAIN pieces |-> convert_singlet(module, pieces[i])])

\* lines 154-158 of convert.py, 331-336 of rest_table.py
Fancy(module, pieces) ==
    IF Len(pieces) = 0 THEN Value("str", "")
    ELSE IF Len(pieces) = 1 THEN convert_singlet(module, pieces[1])
    ELSE Value("tuple", [i \in DOMAIN pieces |-> convert_singlet(module, pieces[i])])

\* Autoconverter._convert_fancy (convert.py), Autoconverter._convert
\* (rest_table.py); sep "False" stands for sep=False
convert_fancy(conv, field) ==
    IF conv.sep = "False" THEN convert_singlet(conv.module, field)
    ELSE Fancy(conv.module, Pieces(conv.sep, field))

\* an inactive converter that goes on converting
Inactive_singlet(conv, x) == convert_singlet(conv.module, x)

\* what the setter of active makes of convert for a false value:
\* lambda x: x in convert.py, besttype in rest_table.py
Inactive(conv, x) ==
    IF conv.module = "convert" THEN Value("str", Join(x)) ELSE rest_besttype(x)

\* self._convertors[self.mode] (convert.py); rest_table.py has _convert only
Active(conv, x) ==
    IF conv.mode = "simple" THEN besttype_of(conv.module, x)
    ELSE IF conv.mode = "singlet" THEN convert_singlet(conv.module, x)
    ELSE convert_fancy(conv, x)

\* Autoconverter.convert
Autoconverter_convert(conv, x) ==
    IF conv.active THEN Active(conv, x) ELSE Inactive(conv, x)

\* the converters: Autoconverter(mode, active, sep) of convert.py and
\* Autoconverter(active, sep) of rest_table.py
Converters ==
    [module : {"convert"}, mode : {"simple", "singlet", "fancy"}, active : BOOLEAN,
     sep : {"False", "None", ","}]
    \cup [module : {"rest_table"}, mode : {"fancy"}, active : BOOLEAN,
          sep : {"False", "None", ","}]

\* the longest token
MaxToken == 3

TokenChars == {"1", ".", "x", "'", "\"", " ", ",", "%", "-"}

Tokens == UNION {LinesOver(TokenChars, n) : n \in 0..MaxToken}

\* what is known of a converter: the last call made, its argument, what it
\* returned or raised
Converted(op, conv, x, ret, exc) ==
    [op |-> op, conv |-> conv, x |-> x, ret |-> ret, exc |-> exc]

InitConvert ==
    /\ db = InitDb(<<1>>)
    /\ handles = [h \in Handles |-> IF h = 1 THEN NewHandle("t") ELSE NoHandle]
    /\ recent = [h \in Handles |-> <<>>]
    /\ \E conv \in Converters : call = Converted("Autoconverter", conv, <<>>, PyNone, "")

\* A.active = x
SetActive(x) ==
    /\ call' = Converted("active", [call.conv EXCEPT !.active = x], <<>>, PyNone, "")
    /\ UNCHANGED <<db, handles, recent>>

\* A.convert(x)
ConvertField(x) ==
    /\ call.op \in {"Autoconverter", "active"}
    /\ call' = Converted("convert", call.conv, x, Autoconverter_convert(call.conv, x), "")
    /\ UNCHANGED <<db, handles, recent>>

\* besttype(x) of the module of the converter
BestType(x) ==
    /\ call.op \in {"Autoconverter", "active"}
    /\ call' = Converted("besttype", call.conv, x, besttype_of(call.conv.module, x), "")
    /\ UNCHANGED <<db, handles, recent>>

\* besttype(besttype(x)) for a number besttype(x)
BestTypeAgain ==
    /\ call.op = "besttype"
    /\ call.ret.type \in {"int", "float"}
    /\ call' = Converted("besttype again", call.conv, call.x,
                         besttype_again(call.conv.module, call.x, call.ret).ret,
                         besttype_again(call.conv.module, call.x, call.ret).exc)
    /\ UNCHANGED <<db, handles, recent>>

NextConvert ==
    \/ \E x \in BOOLEAN : SetActive(x)
    \/ \E x \in Tokens : ConvertField(x)
    \/ \E x \in Tokens : BestType(x)
    \/ BestTypeAgain

SpecConvert == InitConvert /\ [][NextConvert]_vars

\* -------------------------------------------------------------------- alias
\* T on table t, and a second object constructed on the same connection
\* under the name t or under the name __self__, which __init__ refuses no
\* more than any other (lines 146-147 name the two reserved names): the same
\* query is written with the alias and with the table's name.
TextsAlias == { SelectAll(SELF), SelectAll("t"), SelectWhere(SELF), DeleteFrom(SELF) }

NextAlias ==
    \/ \E h \in Handles, SQL \in TextsAlias, cache \in BOOLEAN :
          Sql(h, SQL, IF HasPlaceholder(SQL) THEN Tuple(<<1>>) ELSE None, TRUE, cache,
              TRUE)
    \/ \E g \in Handles, name \in {"t", SELF}, records \in {None, Tuple(<<1>>)} :
          New(g, name, records)
    \/ \E h \in Handles : Close(h)

SpecAlias == InitShared /\ [][NextAlias]_vars

\* --------------------------------------------------------------------- ring
\* one handle: its cache is appended to and cleared directly, and by the
\* queries of the handle
TextsRing == {SelectAll(SELF), SelectCount(SELF), SelectWhere(SELF)}

NextRing ==
    \/ \E SQL \in TextsRing, cache \in BOOLEAN :
          \E parameters \in ParametersFor(SQL) :
             Sql(1, SQL, parameters, FALSE, cache, TRUE)
    \/ \E SQL \in TextsRing, rows \in RecordsShared :
          AppendItem(1, Replace(SQL, SELF, "t"), ListOfTuples(rows))
    \/ ClearCache(1)

SpecRing == InitShared /\ [][NextRing]_vars

\* ================================================================== claims
\* what executing the text on the current database returns, in the form asked
Expected(key, parameters, asrecarray) ==
    LET c == Exec(db, key, parameters, TRUE)
    IN  IF c.rows = <<>> THEN ListOfTuples(<<>>)
        ELSE IF asrecarray THEN Recarray(c.rows, c.description)
        ELSE ListOfTuples(c.rows)

Keys(h) == DOMAIN handles[h].cache.items

\* C1: whenever sql() runs a statement against the store and the store
\* reports a positive rowcount or the text contains 'delete' in any letter
\* case, the whole cache is cleared: when the call returns the cache holds at
\* most the entry this very call stored, and no entry it held before (a key
\* that is there before and after is the call's own placeholder text, now
\* bound to the value this call computed).
C1_MutationClearsCache ==
    [][ (call'.op = "sql" /\ Detected(call'.key, call')) =>
          LET before == handles[call'.h].cache
              after  == handles'[call'.h].cache
          IN  /\ DOMAIN after.items \subseteq {call'.key}
              /\ after.ringbuffer \in {<<>>, <<call'.key>>}
              /\ \A k \in DOMAIN before.items :
                    k \in DOMAIN after.items =>
                        /\ HasPlaceholder(k)
                        /\ call'.cache
                        /\ after.items[k] = call'.ret ]_vars

\* a detected mutation met a full cache and left it empty
C1_Witness ==
    /\ call.op = "sql"
    /\ Detected(call.key, call)
    /\ call.held = cachesize
    /\ Keys(call.h) = {}
    /\ FindDELETE(call.key)
    /\ call.rowcount = 0

\* C2: cached results are returned unless the table has been modified: once
\* the store was changed through the handle (by a statement run by sql(),
\* merge or merge_table), a query cached before the change is not answered
\* from the cache any more.  With T alone on its connection every change is
\* made through T, so whatever its cache holds for a text without
\* placeholder is what executing the text returns now.
C2_NoStaleEntry ==
    \A k \in Keys(1) :
        ~HasPlaceholder(k) =>
            handles[1].cache.items[k] =
                Expected(k, None, handles[1].cache.items[k].form = "recarray")

\* C3: a query string containing the placeholder '?' is never cached: no key
\* of any handle's cache contains '?'.
C3_NoPlaceholderKey ==
    \A h \in Handles :
        /\ \A k \in Keys(h) : ~HasPlaceholder(k)
        /\ \A i \in DOMAIN handles[h].cache.ringbuffer :
              ~HasPlaceholder(handles[h].cache.ringbuffer[i])

\* C4: every sql() call whose text contains a placeholder is executed against
\* the store with the parameters of that call; what it returns is the result
\* for its own parameters, whatever the cache holds.
C4_PlaceholderAlwaysExecuted ==
    (call.op = "sql" /\ HasPlaceholder(call.key)) =>
        /\ call.executed
        /\ call.exc = "" => call.ret = Expected(call.key, call.parameters, call.asrecarray)

\* a placeholder query returned rows for its own parameters while the cache
\* held other rows under the same text, left by a call with other parameters
C4_Witness ==
    /\ call.op = "sql"
    /\ HasPlaceholder(call.key)
    /\ call.exc = ""
    /\ call.ret.rows # <<>>
    /\ call.key \in Keys(call.h)
    /\ handles[call.h].cache.items[call.key].rows # <<>>
    /\ handles[call.h].cache.items[call.key].rows # call.ret.rows

\* C5: a call with no parameters, cache=True, a text without placeholder whose
\* alias-substituted text is a key of the cache returns exactly the value
\* stored for the key, does not execute, and leaves cache and database as
\* they are.
C5_HitReturnsStored ==
    [][ ( /\ call'.op = "sql"
          /\ call'.parameters = None
          /\ call'.cache
          /\ ~HasPlaceholder(call'.key)
          /\ call'.key \in DOMAIN handles[call'.h].cache.items ) =>
          /\ ~call'.executed
          /\ call'.exc = ""
          /\ call'.ret = handles[call'.h].cache.items[call'.key]
          /\ handles' = handles
          /\ db' = db ]_vars

\* a call was answered from a cache holding a second, younger entry
C5_Witness ==
    /\ call.op = "sql"
    /\ ~call.executed
    /\ call.cache
    /\ call.parameters = None
    /\ Len(handles[call.h].cache.ringbuffer) = cachesize
    /\ handles[call.h].cache.ringbuffer[1] = call.key
    /\ call.ret = handles[call.h].cache.items[call.key]

\* C6: the capacity is the one given at construction and the cache never
\* holds more entries than that.
C6_AtMostCapacity ==
    \A h \in Handles :
        /\ handles[h].cache.capacity = cachesize
        /\ Cardinality(Keys(h)) <= handles[h].cache.capacity
        /\ Len(handles[h].cache.ringbuffer) <= handles[h].cache.capacity

\* an insertion into a full cache left it full
C6_Witness ==
    /\ call.op = "sql"
    /\ call.executed
    /\ call.held = cachesize
    /\ ~Detected(call.key, call)
    /\ call.key \in Keys(call.h)
    /\ Cardinality(Keys(call.h)) = cachesize

\* C7: inserting a new key into a cache holding cachesize distinct keys
\* removes exactly the oldest-inserted key and no other, and keeps the values
\* of those that stay; a cache hit leaves the eviction order as it is.
C7_FifoEviction ==
    [][ call'.op = "sql" =>
          LET before == handles[call'.h].cache
              after  == handles'[call'.h].cache
          IN  /\ ( /\ call'.executed
                   /\ ~Detected(call'.key, call')
                   /\ Cardinality(DOMAIN before.items) = cachesize
                   /\ call'.key \notin DOMAIN before.items
                   /\ call'.key \in DOMAIN after.items ) =>
                     /\ DOMAIN after.items =
                          (DOMAIN before.items \ {Head(before.ringbuffer)}) \cup {call'.key}
                     /\ after.ringbuffer = Append(Tail(before.ringbuffer), call'.key)
                     /\ \A k \in DOMAIN after.items \ {call'.key} :
                           after.items[k] = before.items[k]
              /\ ~call'.executed => after.ringbuffer = before.ringbuffer ]_vars

\* a new query was inserted into a full cache
C7_Witness ==
    /\ call.op = "sql"
    /\ call.executed
    /\ ~HasPlaceholder(call.key)
    /\ ~Detected(call.key, call)
    /\ call.held = cachesize
    /\ Len(handles[call.h].cache.ringbuffer) = cachesize
    /\ handles[call.h].cache.ringbuffer[cachesize] = call.key

\* C8: with no detected mutation in between, each of the last cachesize
\* distinct cacheable queries executed (cache=True, no placeholder, rows
\* returned) is still in the cache, whatever other calls were interleaved.
C8_LastQueriesCached ==
    \A h \in Handles :
        \A i \in DOMAIN recent[h] : recent[h][i] \in Keys(h)

\* C9: caches are per handle: an operation on one handle (sql() with or
\* without a detected mutation, merge, merge_table, selection, close, or the
\* construction of another handle) leaves the cache of every other handle on
\* the connection as it is.
C9_CachesPerHandle ==
    [][ \A b \in Handles :
            (b # call'.h /\ handles[b].state # "none") =>
                handles'[b].cache = handles[b].cache ]_vars

\* a mutation detected through one handle emptied its cache and left alone the
\* cache of another handle bound to the same table, which now holds rows the
\* table no longer has
C9_Witness ==
    /\ call.op = "sql"
    /\ Detected(call.key, call)
    /\ Keys(call.h) = {}
    /\ \E b \in Handles \ {call.h} :
          /\ handles[b].name = handles[call.h].name
          /\ SelectAll(handles[b].name) \in Keys(b)
          /\ handles[b].cache.items[SelectAll(handles[b].name)] #
                Expected(SelectAll(handles[b].name), None, TRUE)

\* C10 (as claimed): when asrecarray is set and building the recarray from a
\* non-empty result fails, sql() returns the raw list of row tuples and does
\* not raise.
C10_FallsBackToTuples ==
    ( /\ call.op = "sql"
      /\ call.executed
      /\ call.asrecarray
      /\ call.exc \in {"", "TypeError"}
      /\ LET c == Exec(db, call.key, call.parameters, TRUE)
         IN  c.exc = "" /\ c.rows # <<>> /\ ~fromrecords_ok(c.description) ) =>
        /\ call.exc = ""
        /\ call.ret = ListOfTuples(Exec(db, call.key, call.parameters, TRUE).rows)

\* C10 (amended): in that case sql() raises TypeError and returns nothing;
\* a call with cache=True leaves the text out of the cache.
C10_RaisesTypeError ==
    ( /\ call.op = "sql"
      /\ call.executed
      /\ call.asrecarray
      /\ call.exc \notin {"OperationalError", "ProgrammingError"}
      /\ LET c == Exec(db, call.key, call.parameters, TRUE)
         IN  c.exc = "" /\ c.rows # <<>> /\ ~fromrecords_ok(c.description) ) =>
        /\ call.exc = "TypeError"
        /\ call.ret = NoResult
        /\ call.cache => call.key \notin Keys(call.h)

\* a call asking for a recarray ran a query whose rows have two columns of
\* the same name
C10_Witness ==
    /\ call.op = "sql"
    /\ call.executed
    /\ call.asrecarray
    /\ call.cache
    /\ call.exc = "TypeError"
    /\ call.key = SelectTwice("t")
    /\ db.rows["t"] # <<>>

\* C11: the form of a non-empty result follows the asrecarray flag of the
\* call that returns it: a recarray with asrecarray=True, a list of tuples
\* with asrecarray=False, also when the call is answered from the cache.
C11_FormFollowsFlag ==
    (call.op = "sql" /\ call.exc = "" /\ call.ret.rows # <<>>) =>
        call.ret.form = IF call.asrecarray THEN "recarray" ELSE "list"

\* C12: when an executed statement returns no rows, sql() returns the empty
\* list and stores nothing: the cache on return is the cache as the
\* modification test left it (cleared, or as it was).  So no entry of a
\* cache is an empty result, and a call that returns an empty result has
\* run against the store.
C12_EmptyNotCached ==
    /\ [](\A h \in Handles : \A k \in Keys(h) :
              handles[h].cache.items[k].rows # <<>>)
    /\ []((call.op = "sql" /\ call.exc = "" /\ call.ret.rows = <<>>) => call.executed)
    /\ [][ (call'.op = "sql" /\ call'.executed /\ call'.exc = ""
             /\ call'.ret.rows = <<>>) =>
              /\ call'.ret = ListOfTuples(<<>>)
              /\ handles'[call'.h].cache =
                    IF Modified(call'.rowcount, call'.key)
                    THEN KRingbuffer_clear(handles[call'.h].cache)
                    ELSE handles[call'.h].cache ]_vars

\* a cacheable query found the table empty while the cache held an entry:
\* the entry is still there, the query is not
C12_Witness ==
    /\ call.op = "sql"
    /\ call.executed
    /\ call.cache
    /\ call.key = SelectAll("t")
    /\ call.ret = ListOfTuples(<<>>)
    /\ call.held >= 1
    /\ Held(call.h) = call.held
    /\ call.key \notin Keys(call.h)

\* C13: every sql() call whose text contains DELETE in any letter case
\* clears the cache, whatever the cache flag and whether or not the text is
\* a key of the cache: no entry that was there before the call is there
\* after it, except possibly the entry of the call's own text.
C13_DeleteAlwaysClears ==
    [][ (call'.op = "sql" /\ FindDELETE(call'.key)) =>
          \A k \in DOMAIN handles[call'.h].cache.items :
              k \in DOMAIN handles'[call'.h].cache.items => k = call'.key ]_vars

\* C13 (amended): a sql() call whose text contains DELETE in any letter case
\* and whose statement ran against the store without the store raising
\* leaves a cache that holds nothing but, possibly, the entry of the call's
\* own text.
C13_ExecutedDeleteClears ==
    ( /\ call.op = "sql"
      /\ FindDELETE(call.key)
      /\ call.executed
      /\ call.exc \in {"", "TypeError"} ) =>
        /\ Keys(call.h) \subseteq {call.key}
        /\ handles[call.h].cache.ringbuffer \in {<<>>, <<call.key>>}

\* a DELETE written in small letters, for which the store reported no row,
\* met a full cache and emptied it
C13_Witness ==
    /\ call.op = "sql"
    /\ call.key = DeleteFrom("t")
    /\ call.executed
    /\ call.rowcount = 0
    /\ call.held = cachesize
    /\ Keys(call.h) = {}

\* the rows recarray can be merged into the table of handle h as it is now:
\* the table exists and none of its constraints is violated
Mergeable(h, recarray) ==
    /\ handles[h].name \in db.exists
    /\ handles[h].name \in db.unique => Distinct(db.rows[handles[h].name] \o recarray)

\* the rows recarray collide with the UNIQUE constraint of the table of h
Collides(h, recarray) ==
    /\ handles[h].name \in db.exists
    /\ handles[h].name \in db.unique
    /\ ~Distinct(db.rows[handles[h].name] \o recarray)

\* C14: in every reachable state of a handle whose table holds M rows, merge
\* of N new rows that violate no constraint returns N and leaves the table
\* with M+N rows, for every merge call on the handle, not only the first.
C14_MergeAddsRows ==
    [][ (call'.op = "merge" /\ Mergeable(call'.h, call'.parameters.v)) =>
          /\ call'.exc = ""
          /\ call'.value = Len(call'.parameters.v)
          /\ db'.rows[handles[call'.h].name] =
                db.rows[handles[call'.h].name] \o call'.parameters.v ]_vars

\* C15: when merge returns successfully the relation __tmp_merge_table no
\* longer exists in the store.
C15_MergeDropsTmpTable ==
    (call.op = "merge" /\ call.exc = "") => tmp_table_name \notin db.exists

\* C16: whenever the INSERT of merge succeeds, the difference of the row
\* counts equals the row count of the temporary table: the assertion of
\* merge never fails, whatever was done through other handles of the table.
C16_AssertionNeverFails ==
    call.op = "merge" => call.exc # "AssertionError"

Column(rows) == [i \in DOMAIN rows |-> rows[i][1]]

\* C18: selection() is idempotent without force: when the relation of the
\* query's name exists already (an earlier call made it), a call without
\* force returns an object bound to that relation and sends nothing to the
\* cursor: no SELECT is executed, no relation is created or dropped, no row
\* changes.  With force=True the existing relation is dropped and created
\* again from the query, so that it holds what the query selects now.
C18_SelectionIdempotent ==
    [][ ( /\ call'.op = "selection"
          /\ call'.newname \notin {SELF, handles[call'.h].name}
          /\ call'.newname \in db.exists ) =>
          IF ~call'.force
          THEN /\ call'.exc = ""
               /\ call'.bound = call'.newname
               /\ call'.steps = <<>>
               /\ db'.exists = db.exists
               /\ db'.rows = db.rows
          ELSE /\ call'.steps = <<"DROP", "CREATE">>
               /\ call'.exc = "" =>
                     /\ call'.bound = call'.newname
                     /\ call'.newname \in db'.exists
                     /\ db'.rows[call'.newname] =
                           Column(Exec(db, call'.key, call'.parameters, TRUE).rows) ]_vars

\* the query was selected again without force after the table had changed:
\* the object returned is bound to the rows selected the first time
C18_Witness ==
    /\ call.op = "selection"
    /\ ~call.force
    /\ call.name.none
    /\ call.exc = ""
    /\ call.steps = <<>>
    /\ call.key = SelectAll("t")
    /\ call.bound = "selection_1"
    /\ db.rows["selection_1"] # db.rows["t"]

\* C19: the autogenerated name is unique to the query: two selection()
\* calls on the same handle, without name and without force, whose queries
\* differ in text or in the values bound to their placeholders never return
\* objects bound to the same relation.
C19_NameUniqueToQuery ==
    [][ ( /\ call.op = "selection" /\ call'.op = "selection"
          /\ call.h = call'.h
          /\ call.name.none /\ call'.name.none
          /\ ~call.force /\ ~call'.force
          /\ call.exc = "" /\ call'.exc = ""
          /\ (call.key # call'.key \/ call.parameters # call'.parameters) ) =>
          call.bound # call'.bound ]_vars

\* C20: selection() rejects a name equal to the handle's own table name or
\* to the alias __self__ with ValueError, whatever force is, before it
\* touches the store: nothing is dropped or created, the connection counter
\* and every handle are as they were.
C20_OwnNameRejected ==
    [][ ( /\ call'.op = "selection"
          /\ ~call'.name.none
          /\ call'.name.v \in {SELF, handles[call'.h].name} ) =>
          /\ call'.exc = "ValueError"
          /\ call'.steps = <<>>
          /\ db' = db
          /\ handles' = handles ]_vars

\* selection() was asked, with force, for a table of the parent's own name
C20_Witness ==
    /\ call.op = "selection"
    /\ call.force
    /\ ~call.name.none
    /\ call.name.v = handles[call.h].name
    /\ call.exc = "ValueError"
    /\ handles[call.h].name \in db.exists
    /\ db.rows[handles[call.h].name] # <<>>

\* the calls that run close(): close(), a repeated close(), and __del__
Closes == {"close", "close again", "del", "del closed"}

\* the handles that were created and have not been closed
Unclosed == {h \in Handles : handles[h].state = "open"}

\* C21: close() decrements the connection counter by exactly one.  If the
\* counter is then zero, a handle of an in-memory database (dbfile
\* ":memory:") drops its own relation and no other, and a handle of a
\* database on disk closes the connection; if the counter is not zero no
\* relation is dropped and the connection stays open.
C21_CloseCountsDown ==
    [][ (call'.op \in Closes /\ db.connected) =>
          /\ db'.counter = db.counter - 1
          /\ IF db'.counter = 0
             THEN IF handles[call'.h].dbfile = memory
                  THEN /\ db'.exists = db.exists \ {handles[call'.h].name}
                       /\ db'.connected
                       /\ \A T \in db'.exists : db'.rows[T] = db.rows[T]
                  ELSE /\ ~db'.connected
                       /\ db'.exists = db.exists
                       /\ db'.rows = db.rows
             ELSE /\ db'.exists = db.exists
                  /\ db'.rows = db.rows
                  /\ db'.connected ]_vars

\* the last handle of a database on disk was closed, and the connection
\* with it, all tables left in place
C21_Witness ==
    /\ call.op = "close"
    /\ db.counter = 0
    /\ ~db.connected
    /\ handles[call.h].name \in db.exists
    /\ Unclosed = {}

\* C22: close() is idempotent: a second close() of a handle, and the call
\* __del__ makes when a closed handle is reclaimed, change neither the
\* counter nor the set of relations nor whether the connection is open.
C22_CloseIdempotent ==
    [][ call'.op \in {"close again", "del closed"} =>
          /\ db'.counter = db.counter
          /\ db'.exists = db.exists
          /\ db'.connected = db.connected ]_vars

\* C23: the stored connection counter equals the number of handles created
\* on the connection that have not been closed, and is never negative.
C23_CounterCountsHandles ==
    /\ db.counter = Cardinality(Unclosed)
    /\ db.counter >= 0

\* C26: sql() answers from the cache only when no parameters are passed:
\* every call that passes parameters executes its statement.
C26_ParametersAlwaysExecuted ==
    [][ (call'.op = "sql" /\ ~call'.parameters.none) => call'.executed ]_vars

Parsed == {"parse_fields", "parse"}

RECURSIVE Runs(_, _)
\* the number of runs of "=" in a rule (inside: the last character was "=")
Runs(rule, inside) ==
    IF rule = <<>> THEN 0
    ELSE (IF rule[1] = "=" /\ ~inside THEN 1 ELSE 0) + Runs(Tail(rule), rule[1] = "=")

\* C28: when the fields were determined without error, there are as many
\* column ranges as field names, whatever separates the runs of "=" of the
\* rule (spaces, tabs or both); when the rule has another number of runs
\* than there are names, the count-mismatch ParseError is raised.
C28_RangesMatchNames ==
    call.op \in Parsed =>
        /\ call.exc = "" => Len(call.fields.v) = Len(call.names.v)
        /\ (/\ rstrip(call.t.toprule) = rstrip(call.t.midrule)
            /\ rstrip(call.t.toprule) = rstrip(call.t.botrule)
            /\ Runs(call.t.toprule, FALSE) # Len(split(call.t.fields)))
           => (/\ call.exc = "ParseError"
               /\ call.message = "number of field names does not match number of fields")

\* C29: when the top, middle and bottom rules are not the same once their
\* trailing white space is removed, parsing raises ParseError and leaves no
\* field names, no column ranges and no records.
C29_RulesMustAgree ==
    (/\ call.op \in Parsed
     /\ \/ rstrip(call.t.toprule) # rstrip(call.t.midrule)
        \/ rstrip(call.t.toprule) # rstrip(call.t.botrule)
        \/ rstrip(call.t.midrule) # rstrip(call.t.botrule))
    => /\ call.exc = "ParseError"
       /\ call.names.none
       /\ call.fields.none
       /\ call.records.none

\* parse() was refused for a bottom rule that differs from the other two
C29_Witness ==
    /\ call.op = "parse"
    /\ rstrip(call.t.toprule) = rstrip(call.t.midrule)
    /\ rstrip(call.t.toprule) # rstrip(call.t.botrule)
    /\ call.exc = "ParseError"

\* C30: parsing the table of the documentation gives the table name
\* laureates, the columns name, age, year, and the three records of the
\* three lines in their order, age and year being integers.
C30_LaureatesParsed ==
    (call.op = "parse" /\ call.string = Laureates) =>
        /\ call.exc = ""
        /\ call.tablename = [none |-> FALSE, v |-> "laureates"]
        /\ call.names.v = <<"name", "age", "year">>
        /\ call.records.v = << <<"A. Einstein", 42, 1921>>,
                               <<"P. Dirac", 31, 1933>>,
                               <<"R. P. Feynman", 47, 1965>> >>

\* the documented table was parsed into three records
C30_Witness ==
    /\ call.op = "parse"
    /\ call.string = Laureates
    /\ ~call.records.none
    /\ Len(call.records.v) = 3

\* the names no object may have unless it is merge's own
ReservedNames == {master, tmp_table_name}

\* C24: no object that is not marked temporary is bound to the table
\* sqlarray_master or __tmp_merge_table, whichever way it was made (from
\* records, by binding to a table that exists, from a text whose
\* Table[<name>] names the table), and each attempt raises ValueError.
C24_ReservedNamesRefused ==
    /\ \A h \in Handles :
          handles[h].state = "open" => handles[h].name \notin ReservedNames
    /\ (call.op \in {"new", "new text"} /\ call.key[1] \in ReservedNames)
          => call.exc = "ValueError"

\* the column names that collide: one name twice, or the alias __self__
Colliding(columns) == ~Distinct(columns) \/ \E i \in DOMAIN columns : columns[i] = SELF

\* C25: making an object from records whose column names collide (a name
\* twice, a reserved name) raises ValueError and leaves the database as it
\* was: no table created, the counter unchanged.
C25_ColumnsValidated ==
    [][ (call'.op = "new columns" /\ Colliding(call'.parameters.v)) =>
          /\ call'.exc = "ValueError"
          /\ db' = db ]_vars

\* two converted values are the same value of the same type
Same(a, b) == a.type = b.type /\ a.v = b.v

\* the token between its first and its last character
Enclosed(x) == SubSeq(x, 2, Len(x) - 1)

\* C31: besttype takes a token for quoted only when it begins and ends with
\* the same quote character, and then returns what is between the quotes
\* as a string; a token that begins with one quote character and ends with
\* the other is returned as it is.  In convert.py and in rest_table.py.
C31_QuotesMustMatch ==
    (call.op = "besttype" /\ Len(strip(call.x)) >= 2
     /\ strip(call.x)[1] \in Quotes /\ strip(call.x)[Len(strip(call.x))] \in Quotes)
    => /\ call.ret.type = "str"
       /\ call.ret.v = IF strip(call.x)[1] = strip(call.x)[Len(strip(call.x))]
                       THEN Join(Enclosed(strip(call.x)))
                       ELSE Join(strip(call.x))

C34_InferenceIdempotent ==
    call.op = "besttype again"
    => /\ call.exc = ""
       /\ Same(call.ret, besttype_of(call.conv.module, call.x))

\* C35: a call of sql() with cache=False executes its statement whatever
\* the cache holds and stores nothing; the cache is cleared when the
\* statement was run and a modification detected (a positive rowcount, or
\* 'delete' in the text), and is otherwise exactly what it was.
C35_CacheFlagOff ==
    [][ (call'.op = "sql" /\ ~call'.cache) =>
          /\ call'.executed
          /\ handles'[call'.h].cache =
                IF Detected(call'.key, call')
                THEN KRingbuffer_clear(handles[call'.h].cache)
                ELSE handles[call'.h].cache ]_vars

\* a query the cache holds was executed all the same, the cache kept
C35_Witness ==
    /\ call.op = "sql"
    /\ ~call.cache
    /\ call.executed
    /\ call.exc = ""
    /\ call.ret.rows # <<>>
    /\ ~HasPlaceholder(call.key)
    /\ call.key \in Keys(call.h)

\* the text holds the alias
HasAlias(SQL) == \E i \in DOMAIN SQL : SQL[i] = SELF

C37_UnclosedKeepsConnection ==
    Unclosed # {} =>
        /\ db.connected
        /\ db.counter > 0
        /\ \A h \in Unclosed : handles[h].name \in db.exists

RECURSIVE RunEnd(_, _)
\* the column (from 0) of the last "=" of the run that holds column c
RunEnd(rule, c) ==
    IF c + 1 < Len(rule) /\ rule[c + 2] = "=" THEN RunEnd(rule, c + 1) ELSE c

\* the range of the run from column c to column e: it ends at the column
\* after the run, or at the last column of the rule
RangeOf(rule, c, e) == <<c, IF e = Len(rule) - 1 THEN e ELSE e + 1>>

RECURSIVE RunRanges(_, _)
\* one range for every maximal run of "=" of the rule, from column c on
RunRanges(rule, c) ==
    IF c >= Len(rule) THEN <<>>
    ELSE IF rule[c + 1] # "=" THEN RunRanges(rule, c + 1)
    ELSE <<RangeOf(rule, c, RunEnd(rule, c))>> \o RunRanges(rule, RunEnd(rule, c) + 1)

\* C38: the fields determined from the rule are one (start, end) range for
\* every maximal run of "=", from left to right: start is the column of the
\* first "=" of the run, end the column of the character that ends the run
\* or the last column of the rule; every range starts after the end of the
\* range before it.
C38_OneRangePerRun ==
    (call.op \in Parsed /\ call.exc = "") =>
        /\ call.fields.v = RunRanges(rstrip(call.t.toprule), 0)
        /\ \A i \in DOMAIN call.fields.v :
              /\ call.fields.v[i][1] <= call.fields.v[i][2]
              /\ i > 1 => call.fields.v[i - 1][2] < call.fields.v[i][1]

\* the same for the rules that hold no tab
C38_OneRangePerRunOfSpaces ==
    (/\ call.op \in Parsed
     /\ call.exc = ""
     /\ \A i \in DOMAIN call.t.toprule : call.t.toprule[i] # "\t") => C38_OneRangePerRun

\* the keys held in the ring of insertion order
RingKeys(kr) == {kr.ringbuffer[i] : i \in DOMAIN kr.ringbuffer}

\* C39: whatever was appended and cleared, the keys that can be looked up
\* are the keys held in the ring; a key that was appended is looked up with
\* the value of that append, and the keys that stay keep theirs; clear()
\* leaves no key; a key appended again takes one more place in the ring, so
\* there are never more keys than places taken.
C39_KeysFollowRing ==
    [][ /\ \A h \in Handles :
              /\ DOMAIN handles'[h].cache.items = RingKeys(handles'[h].cache)
              /\ Cardinality(DOMAIN handles'[h].cache.items)
                    <= Len(handles'[h].cache.ringbuffer)
        /\ call'.op = "append" =>
              /\ InCache(handles'[call'.h].cache, call'.key)
              /\ GetItem(handles'[call'.h].cache, call'.key) = call'.ret
              /\ handles'[call'.h].cache.ringbuffer =
                    Ringbuffer_append(handles[call'.h].cache.ringbuffer, cachesize,
                                      call'.key)
              /\ \A k \in DOMAIN handles'[call'.h].cache.items \ {call'.key} :
                    /\ InCache(handles[call'.h].cache, k)
                    /\ GetItem(handles'[call'.h].cache, k) =
                          GetItem(handles[call'.h].cache, k)
        /\ call'.op = "clear" =>
              /\ handles'[call'.h].cache.ringbuffer = <<>>
              /\ DOMAIN handles'[call'.h].cache.items = {} ]_vars

\* a key the cache held was appended again: it takes two
\* places of the ring, is the only key, and is looked up with the value of
\* the last append
C39_Witness ==
    /\ call.op = "append"
    /\ handles[call.h].cache.ringbuffer = <<call.key, call.key>>
    /\ Keys(call.h) = {call.key}
    /\ call.ret = ListOfTuples(<<1>>)
    /\ GetItem(handles[call.h].cache, call.key) = call.ret
    /\ call.held = 2

====
